---- MODULE Spec2Model ----
(***************************************************************************)
(* Reactive dataflow and event-dispatch core of the terminal-UI toolkit    *)
(* (cget/base.py): widgets with handler tables, dispatch/bubble, and the   *)
(* reactive Var with derive, concat, subscribe, watch, change and on_tick. *)
(*                                                                         *)
(* Every Python call is synchronous, so one action is one top-level call   *)
(* of the application, computed by recursive operators over a state record *)
(* st = [objs, reg, trace].                                                *)
(***************************************************************************)
EXTENDS Integers, Sequences, FiniteSets, TLC

\* ---- bounds -------------------------------------------------------------
MaxObjs    == 3       \* objects ever constructed (vars and widgets)
MaxWidgets == 1       \* application widgets among them
MaxVal     == 1       \* source payloads are 0..MaxVal
MaxSubs    == 1       \* subscribe/watch calls made by the application
MaxDead    == 1       \* objects the collector frees

Vals == 0..MaxVal
Fns  == {"f", "g"}    \* mapping functions handed to derive

\* ---- event keys (module-level EventKey instances and generic aliases) ----
E_TICK == "base.tick"
E_KEY  == "base.key"
K_T    == "EventKey[T]"
K_U    == "EventKey[U]"
K_E    == "EventKey[E]"
\* EventKey objects the application constructs itself, one token per heap
\* address
KeyTokens == <<"EventKey@1", "EventKey@2", "EventKey@3", "EventKey@4",
               "EventKey@5", "EventKey@6">>
E_RESIZE == "base.resize"
\* keys the application defines once at module level
E_INC    == "snake.inc"
E_UPDATE == "boundary.update"
E_NEXT   == "one_of.next"
\* the generic aliases of the tuple-payload variant (lib/base.py)
K_P    == "EventKey[Unpack[P]]"
K_Q    == "EventKey[Unpack[Q]]"
\* WidgetSequence.E_NEXT and WidgetSequence.E_DONE
E_SEQ_NEXT == "sequence.next"
E_DONE     == "sequence.done"
\* the control events of Snek
E_UP      == "snake.up"
E_DOWN    == "snake.down"
E_RIGHT   == "snake.right"
E_LEFT    == "snake.left"
E_ADVANCE == "snake.advance"
E_REVERSE == "snake.reverse"
Arrows == {E_UP, E_DOWN, E_RIGHT, E_LEFT}
Keys   == {E_TICK, E_KEY, K_T, K_U, K_E, E_RESIZE, E_INC, E_UPDATE, E_NEXT,
           K_P, K_Q, E_SEQ_NEXT, E_DONE, E_ADVANCE, E_REVERSE} \cup Arrows
            \cup {KeyTokens[i] : i \in 1..Len(KeyTokens)}

NoHandler == "None"   \* dict.get() miss
NoPayload == "None"   \* payload default of dispatch
NoExc     == "None"   \* no exception is propagating

Prefixes == {"base._change", "base.change_t", "base.change_u"}

VARIABLES objs, reg, trace, op
vars == <<objs, reg, trace, op>>

\* a pure mapping function fn applied to x, kept symbolic
Apply(fn, x) == <<fn, x>>

\* instrumentation: what happened inside the running call, in order
Log(st, ev, o, k, p, i, h) ==
    [st EXCEPT !.trace = Append(@,
        [ev |-> ev, o |-> o, k |-> k, p |-> p, i |-> i, h |-> h,
         cur |-> st.objs[o].last, dirty |-> st.objs[o].changed])]

e_change(st, t, prefix) ==
    IF st.reg[prefix] = NoHandler
    THEN [st |-> [st EXCEPT !.reg[prefix] = t], key |-> t]
    ELSE [st |-> st, key |-> st.reg[prefix]]

\* ---- Widget -------------------------------------------------------------
Widget_init(kind) ==
    [kind |-> kind, alive |-> TRUE,
     handlers |-> [k \in Keys |-> NoHandler],
     name |-> <<>>, fn |-> "-",
     last |-> 0, new |-> 0, changed |-> FALSE,
     subs |-> <<>>, subvars |-> <<>>, widgets |-> <<>>,
     var |-> 0, widget |-> 0,
     y |-> 0, x |-> 0, height |-> 0, width |-> 0, text |-> <<>>,
     table |-> TRUE, keys |-> {}, event |-> "-", wrapped |-> 0,
     limit |-> 0, to |-> 0, steps |-> 0,
     n |-> 0, tick |-> 0,
     body |-> <<>>, dir |-> <<0, 0>>, resting |-> FALSE, mq |-> <<>>,
     head_pos |-> 0, length |-> 0, dead |-> 0]

\* raise e inside a call on o: the rest of every enclosing call is skipped
Raise(st, o, e) ==
    [Log(st, "raise", o, "-", NoPayload, 0, e) EXCEPT !.exc = e]

register_keeps_first(st, o, key, handler) ==
    IF st.objs[o].handlers[key] # NoHandler THEN st
    ELSE [st EXCEPT !.objs[o].handlers[key] = handler]

register(st, o, key, handler) ==
    IF ~st.objs[o].table THEN Raise(st, o, "AttributeError")
    ELSE [st EXCEPT !.objs[o].handlers[key] = handler]

change_first_wins(st, v, payload) ==
    IF st.objs[v].changed THEN st
    ELSE [st EXCEPT !.objs[v].changed = TRUE, !.objs[v].new = payload]

change_commits(st, v, payload) ==
    [st EXCEPT !.objs[v].changed = TRUE, !.objs[v].new = payload,
               !.objs[v].last = payload]

change_unflagged(st, v, payload) ==
    [st EXCEPT !.objs[v].new = payload]

change(st, v, payload) ==
    [st EXCEPT !.objs[v].changed = TRUE, !.objs[v].new = payload]

value(st, v) == st.objs[v].last

RECURSIVE dispatch(_, _, _, _)
RECURSIVE bubble(_, _, _, _)
RECURSIVE Group_bubble(_, _, _, _, _)
RECURSIVE call(_, _, _, _)
RECURSIVE on_tick(_, _)
RECURSIVE on_tick_subvars(_, _, _)
RECURSIVE on_tick_subscribers(_, _, _)
RECURSIVE propagate_change(_, _, _)
RECURSIVE derive_on_change(_, _, _)
RECURSIVE subscribe(_, _, _, _)
RECURSIVE Reactive(_, _, _)
RECURSIVE Reactive_fn(_, _, _, _)
RECURSIVE Reactive_on_change(_, _, _)

on_t_change(st, cv, new_value) ==
    change(st, cv, <<new_value, st.objs[cv].new[2]>>)

on_u_change(st, cv, new_value) ==
    change(st, cv, <<st.objs[cv].new[1], new_value>>)

\* pq[:k] = p and pq[-n:] = q on a Python list; pq[-0:] is pq[0:]
SliceHead(pq, k, p) ==
    p \o SubSeq(pq, (IF k < Len(pq) THEN k ELSE Len(pq)) + 1, Len(pq))
SliceTail(pq, n, q) ==
    IF n = 0 THEN q
    ELSE SubSeq(pq, 1, IF Len(pq) - n > 0 THEN Len(pq) - n ELSE 0) \o q

\* lib/base.py concat: pq = list(cv._new_value); pq[:len(p)] = p; cv.change(*pq)
Lib_on_p_change(st, cv, p) ==
    change(st, cv, SliceHead(st.objs[cv].new, Len(p), p))

\* lib/base.py concat: pq = list(cv._new_value); pq[-len(q):] = q; cv.change(*pq)
Lib_on_q_change(st, cv, q) ==
    change(st, cv, SliceTail(st.objs[cv].new, Len(q), q))

derive_on_change_staged(st, dv, new_value) ==
    change(st, dv, Apply(st.objs[dv].fn, new_value))

derive_on_change(st, dv, new_value) ==
    on_tick(change(st, dv, Apply(st.objs[dv].fn, new_value)), dv)

on_key_unfiltered(st, o, key) ==
    dispatch(st, st.objs[o].wrapped, st.objs[o].event, NoPayload)

\* OnKey.on_key: if key in self._keys: self._wrapped.dispatch(self._event)
on_key(st, o, key) ==
    IF key \in st.objs[o].keys
    THEN dispatch(st, st.objs[o].wrapped, st.objs[o].event, NoPayload)
    ELSE st

\* GiveUp.on_quit: if key in self._keys: raise Quit
on_quit(st, o, key) ==
    IF key \in st.objs[o].keys THEN Raise(st, o, "Quit") ELSE st

\* Seqw.on_next: self._steps.pop(0); if not self._steps: raise Quit
on_next(st, o) ==
    LET s1 == [st EXCEPT !.objs[o].steps = @ - 1] IN
    IF s1.objs[o].steps = 0 THEN Raise(s1, o, "Quit") ELSE s1

\* Foods._eat on a hit: self._score.change(self._score.value() + 1)
Foods_eat(st, o) ==
    LET v == st.objs[o].var IN change(st, v, value(st, v) + 1)

\* a subscriber that reads the committed value and, past its limit, changes
\* a var from inside the notification (here the var that is notifying)
on_update(st, o) ==
    LET v == st.objs[o].var IN
    IF value(st, v) >= st.objs[o].limit THEN change(st, v, st.objs[o].to)
    ELSE st

TickReducer_on_tick_late(st, o) ==
    LET s1 == [st EXCEPT !.objs[o].tick = @ + 1] IN
    IF s1.objs[o].tick > s1.objs[o].n
    THEN LET s2 == dispatch(s1, s1.objs[o].wrapped, s1.objs[o].event, NoPayload)
         IN IF s2.exc # NoExc THEN s2 ELSE [s2 EXCEPT !.objs[o].tick = 0]
    ELSE s1

\* TickReducer.on_tick: self._tick += 1; on reaching n, dispatch and reset
TickReducer_on_tick(st, o) ==
    LET s1 == [st EXCEPT !.objs[o].tick = @ + 1] IN
    IF s1.objs[o].tick >= s1.objs[o].n
    THEN LET s2 == dispatch(s1, s1.objs[o].wrapped, s1.objs[o].event, NoPayload)
         IN IF s2.exc # NoExc THEN s2 ELSE [s2 EXCEPT !.objs[o].tick = 0]
    ELSE s1

WidgetSequence_on_next_renotifies(st, o) ==
    LET s1 == [st EXCEPT !.objs[o].widgets =
                  IF @ = <<>> THEN @ ELSE Tail(@)]
    IN IF s1.objs[o].widgets = <<>>
       THEN dispatch(s1, s1.objs[o].wrapped, E_DONE, NoPayload)
       ELSE s1

\* WidgetSequence.on_next: nothing without steps; else pop the first step and,
\* when none is left, dispatch E_DONE to on_done_notify
WidgetSequence_on_next(st, o) ==
    IF st.objs[o].widgets = <<>> THEN st
    ELSE LET s1 == [st EXCEPT !.objs[o].widgets = Tail(@)]
         IN IF s1.objs[o].widgets = <<>>
            THEN dispatch(s1, s1.objs[o].wrapped, E_DONE, NoPayload)
            ELSE s1

\* ---- Snek ----
Horizontal == {<<0, 1>>, <<0, -1>>}
Vertical   == {<<1, 0>>, <<-1, 0>>}

Snek_on_arrow_unrested(st, o, key) ==
    LET s == st.objs[o]
        axis == IF key \in {E_UP, E_DOWN} THEN Horizontal ELSE Vertical
        to == CASE key = E_UP    -> <<-1, 0>>
                [] key = E_DOWN  -> <<1, 0>>
                [] key = E_RIGHT -> <<0, 1>>
                [] key = E_LEFT  -> <<0, -1>>
    IN IF s.resting THEN [st EXCEPT !.objs[o].mq = Append(@, key)]
       ELSE IF s.dir \in axis THEN [st EXCEPT !.objs[o].dir = to] ELSE st

\* on_up / on_down / on_right / on_left: queued while resting; otherwise the
\* turn is taken when the snake moves along the other axis
Snek_on_arrow(st, o, key) ==
    LET s == st.objs[o]
        axis == IF key \in {E_UP, E_DOWN} THEN Horizontal ELSE Vertical
        to == CASE key = E_UP    -> <<-1, 0>>
                [] key = E_DOWN  -> <<1, 0>>
                [] key = E_RIGHT -> <<0, 1>>
                [] key = E_LEFT  -> <<0, -1>>
    IN IF s.resting THEN [st EXCEPT !.objs[o].mq = Append(@, key)]
       ELSE IF s.dir \in axis
            THEN [st EXCEPT !.objs[o].dir = to, !.objs[o].resting = TRUE]
            ELSE st

RECURSIVE Reversed(_)
Reversed(q) == IF q = <<>> THEN <<>> ELSE Append(Reversed(Tail(q)), Head(q))

\* on_reverse: queued while resting; otherwise the body is reversed and the
\* direction is head minus second segment
Snek_on_reverse(st, o) ==
    LET s == st.objs[o]
        b == Reversed(s.body)
    IN IF s.resting THEN [st EXCEPT !.objs[o].mq = Append(@, E_REVERSE)]
       ELSE [st EXCEPT !.objs[o].body = b,
                       !.objs[o].dir = <<b[1][1] - b[2][1], b[1][2] - b[2][2]>>]

\* the for loop of on_advance: the head moves by dir, every other segment by
\* the difference to the old place of the segment before it
\* on_advance: move, grow by the old tail while shorter than length, publish
\* the head, flag a self-collision, then re-dispatch the oldest queued event
Snek_on_advance(st, o) ==
    LET s == st.objs[o]
        Moved(body, dir) ==
            [i \in 1..Len(body) |->
                LET d == IF i = 1 THEN dir
                         ELSE <<body[i - 1][1] - body[i][1],
                                body[i - 1][2] - body[i][2]>>
                IN <<body[i][1] + d[1], body[i][2] + d[2]>>]
        Grown(m) ==
            IF value(st, s.length) > Len(s.body)
            THEN Append(m, s.body[Len(s.body)]) ELSE m
        Collide(s2, nb) ==
            IF Cardinality({nb[i] : i \in 1..Len(nb)}) # Len(nb)
            THEN change(s2, s.dead, TRUE) ELSE s2
        Publish(nb) ==
            Collide(change([st EXCEPT !.objs[o].resting = FALSE,
                                      !.objs[o].body = nb],
                           s.head_pos, nb[1]),
                    nb)
        Replay(s3) ==
            IF s.mq = <<>> THEN s3
            ELSE dispatch([s3 EXCEPT !.objs[o].mq = Tail(@)],
                          o, Head(s.mq), NoPayload)
    IN Replay(Publish(Grown(Moved(s.body, s.dir))))

\* invoke the callable h registered on widget o
call(st, o, h, payload) ==
    CASE h = "on_tick"     -> on_tick(st, o)
      [] h = "on_key"      -> on_key(st, o, payload)
      [] h = "on_quit"     -> on_quit(st, o, payload)
      [] h = "on_next"     -> on_next(st, o)
      [] h = "_eat"        -> Foods_eat(st, o)
      [] h = "on_update"   -> on_update(st, o)
      [] h = "change"      -> change(st, o, payload)
      [] h = "on_change"   -> derive_on_change(st, o, payload)
      [] h = "on_t_change" -> on_t_change(st, o, payload)
      [] h = "on_u_change" -> on_u_change(st, o, payload)
      [] h = "on_p_change" -> Lib_on_p_change(st, o, payload)
      [] h = "on_up"       -> Snek_on_arrow(st, o, E_UP)
      [] h = "on_down"     -> Snek_on_arrow(st, o, E_DOWN)
      [] h = "on_right"    -> Snek_on_arrow(st, o, E_RIGHT)
      [] h = "on_left"     -> Snek_on_arrow(st, o, E_LEFT)
      [] h = "on_reverse"  -> Snek_on_reverse(st, o)
      [] h = "on_advance"  -> Snek_on_advance(st, o)
      [] h = "WidgetSequence.on_next" -> WidgetSequence_on_next(st, o)
      [] h = "TickReducer.on_tick" -> TickReducer_on_tick(st, o)
      [] h = "on_q_change" -> Lib_on_q_change(st, o, payload)
      [] h = "_on_change"  -> Reactive_on_change(st, o, payload)
      [] OTHER             -> st

dispatch_and_bubble(st, o, key, payload) ==
    LET h == st.objs[o].handlers[key] IN
    IF h # NoHandler
    THEN bubble(call(Log(st, "handler", o, key, payload, 0, h), o, h, payload),
                o, key, payload)
    ELSE bubble(st, o, key, payload)

dispatch(st, o, key, payload) ==
    LET h == st.objs[o].handlers[key] IN
    IF ~st.objs[o].table THEN Raise(st, o, "AttributeError")
    ELSE IF h # NoHandler
    THEN call(Log(st, "handler", o, key, payload, 0, h), o, h, payload)
    ELSE bubble(st, o, key, payload)

RECURSIVE Group_bubble_backwards(_, _, _, _, _)
Group_bubble_backwards(st, widgets, key, payload, i) ==
    IF i > Len(widgets) THEN st
    ELSE Group_bubble_backwards(
            dispatch(st, widgets[Len(widgets) + 1 - i], key, payload),
            widgets, key, payload, i + 1)

RECURSIVE Group_bubble_catching(_, _, _, _, _)
Group_bubble_catching(st, widgets, key, payload, i) ==
    IF i > Len(widgets) THEN st
    ELSE Group_bubble_catching(
            [dispatch(st, widgets[i], key, payload) EXCEPT !.exc = NoExc],
            widgets, key, payload, i + 1)

\* for widget in self._widgets: widget.dispatch(event.key, event.payload)
Group_bubble(st, widgets, key, payload, i) ==
    IF i > Len(widgets) \/ st.exc # NoExc THEN st
    ELSE Group_bubble(dispatch(st, widgets[i], key, payload),
                      widgets, key, payload, i + 1)

bubble(st, o, key, payload) ==
    LET s1 == Log(st, "bubble", o, key, payload, 0, "-") IN
    IF st.objs[o].kind = "group"
    THEN Group_bubble(s1, st.objs[o].widgets, key, payload, 1)
    ELSE IF st.objs[o].kind = "reactive"
         THEN dispatch(s1, st.objs[o].widget, key, payload)
         ELSE IF st.objs[o].kind = "sequence" /\ st.objs[o].widgets # <<>>
              THEN dispatch(s1, st.objs[o].widgets[1], key, payload)
              ELSE s1

\* ---- cells ---------------------------------------------------------------
Rect(y, x, height, width, char) ==
    [y |-> y, x |-> x, height |-> height, width |-> width, char |-> char]

\* SimpleText.cells: one 1x1 Rect per character, clipped to the screen
SimpleText_cells(st, o, h, w) ==
    LET t == st.objs[o]
        n == IF w - t.x < 0 THEN 0
             ELSE IF w - t.x < Len(t.text) THEN w - t.x ELSE Len(t.text)
    IN IF t.y >= h THEN <<>>
       ELSE [i \in 1..n |-> Rect(t.y, t.x + i - 1, 1, 1, t.text[i])]

\* a character payload is a Python str: a sequence of glyphs
Rect_init(y, x, height, width, char) ==
    [Widget_init("rect") EXCEPT
        !.y = y, !.x = x, !.height = height, !.width = width, !.text = char]

Rect_post_init_unchecked(st, y, x, height, width, char) ==
    [st EXCEPT !.objs = Append(@, Rect_init(y, x, height, width, char))]

\* Rect(y, x, height, width, style, char): assert len(self.char) == 1
Rect_post_init(st, y, x, height, width, char) ==
    IF Len(char) # 1 THEN [st EXCEPT !.exc = "AssertionError"]
    ELSE [st EXCEPT !.objs = Append(@, Rect_init(y, x, height, width, char))]

\* Char(val, style): if len(val) != 1: raise ValueError
Char_init(st, val) ==
    IF Len(val) # 1 THEN [st EXCEPT !.exc = "ValueError"]
    ELSE [st EXCEPT !.objs = Append(@, [Widget_init("char") EXCEPT !.text = val])]

Rect_cells_keeps_size(st, o, h, w) ==
    LET r  == st.objs[o]
        x  == IF r.x <= 0 THEN 0 ELSE r.x
        y  == IF r.y <= 0 THEN 0 ELSE r.y
        rw == IF x + r.width >= w THEN w - x ELSE r.width
        rh == IF y + r.height >= h THEN h - y ELSE r.height
    IN IF rw > 0 /\ rh > 0 /\ Len(r.text) = 1
       THEN << Rect(y, x, rh, rw, r.text) >>
       ELSE <<>>

\* Rect.cells: the rectangle clipped to the h x w screen, as one new Rect
Rect_cells(st, o, h, w) ==
    LET r   == st.objs[o]
        rw1 == IF r.x <= 0 THEN r.width + r.x ELSE r.width
        x   == IF r.x <= 0 THEN 0 ELSE r.x
        rh1 == IF r.y <= 0 THEN r.height + r.y ELSE r.height
        y   == IF r.y <= 0 THEN 0 ELSE r.y
        rw  == IF x + rw1 >= w THEN w - x ELSE rw1
        rh  == IF y + rh1 >= h THEN h - y ELSE rh1
    IN IF rw > 0 /\ rh > 0 /\ Len(r.text) = 1
       THEN << Rect(y, x, rh, rw, r.text) >>
       ELSE <<>>

RECURSIVE cells(_, _, _, _)
RECURSIVE Group_cells(_, _, _, _, _)

\* for widget in self._widgets: yield from widget.cells(h, w)
Group_cells(st, widgets, h, w, i) ==
    IF i > Len(widgets) THEN <<>>
    ELSE cells(st, widgets[i], h, w) \o Group_cells(st, widgets, h, w, i + 1)

cells(st, o, h, w) ==
    CASE st.objs[o].kind = "group"    -> Group_cells(st, st.objs[o].widgets, h, w, 1)
      [] st.objs[o].kind = "text"     -> SimpleText_cells(st, o, h, w)
      [] st.objs[o].kind = "reactive" -> cells(st, st.objs[o].widget, h, w)
      [] st.objs[o].kind = "rect"     -> Rect_cells(st, o, h, w)
      [] st.objs[o].kind = "sequence" ->
            IF st.objs[o].widgets = <<>> THEN <<>>
            ELSE cells(st, st.objs[o].widgets[1], h, w)
      [] OTHER                        -> <<>>

\* ---- Var ----------------------------------------------------------------
Var_init(name, fn, initial) ==
    [Widget_init("var") EXCEPT
        !.name = name, !.fn = fn, !.last = initial, !.new = initial,
        !.handlers[E_TICK] = "on_tick"]

propagate_change_strong(st, v, i) ==
    LET sub == st.objs[v].subs[i]
        payload == st.objs[v].last
    IN IF sub.weak
       THEN dispatch(Log(st, "notify", v, sub.key, payload, i, "-"),
                     sub.w, sub.key, payload)
       ELSE Log(st, "notify", v, "-", payload, i, sub.cb)

\* drops the entry of a dead widget from the list instead of skipping it
propagate_change_pruning(st, v, i) ==
    LET sub == st.objs[v].subs[i]
        payload == st.objs[v].last
    IN IF sub.weak
       THEN IF st.objs[sub.w].alive
            THEN dispatch(Log(st, "notify", v, sub.key, payload, i, "-"),
                          sub.w, sub.key, payload)
            ELSE [st EXCEPT !.objs[v].subs =
                     SubSeq(@, 1, i - 1) \o SubSeq(@, i + 1, Len(@))]
       ELSE Log(st, "notify", v, "-", payload, i, sub.cb)

propagate_change(st, v, i) ==
    LET sub == st.objs[v].subs[i]
        payload == st.objs[v].last
    IN IF sub.weak
       THEN IF st.objs[sub.w].alive
            THEN dispatch(Log(st, "notify", v, sub.key, payload, i, "-"),
                          sub.w, sub.key, payload)
            ELSE st
       ELSE Log(st, "notify", v, "-", payload, i, sub.cb)

on_tick_subvars(st, v, i) ==
    IF i > Len(st.objs[v].subvars) \/ st.exc # NoExc THEN st
    ELSE LET d == st.objs[v].subvars[i] IN
         on_tick_subvars(
            IF st.objs[d].alive
            THEN LET s1 == on_tick(Log(st, "settle", v, "-", NoPayload, d, "-"), d)
                 IN IF s1.exc # NoExc THEN s1
                    ELSE Log(s1, "settled", v, "-", NoPayload, d, "-")
            ELSE st,
            v, i + 1)

on_tick_subscribers(st, v, i) ==
    IF i > Len(st.objs[v].subs) \/ st.exc # NoExc THEN st
    ELSE on_tick_subscribers(propagate_change(st, v, i), v, i + 1)

on_tick_commit(st, v) ==
    Log([st EXCEPT !.objs[v].last = st.objs[v].new,
                   !.objs[v].changed = FALSE],
        "commit", v, "-", st.objs[v].new, 0, "-")

on_tick_notify_first(st, v) ==
    IF ~st.objs[v].changed THEN st
    ELSE on_tick_commit(on_tick_subscribers(on_tick_subvars(st, v, 1), v, 1), v)

on_tick_unguarded(st, v) ==
    on_tick_subscribers(on_tick_commit(on_tick_subvars(st, v, 1), v), v, 1)

on_tick_clears_late(st, v) ==
    IF ~st.objs[v].changed THEN st
    ELSE LET s1 == on_tick_subvars(st, v, 1)
             s2 == on_tick_subscribers(on_tick_commit(s1, v), v, 1)
         IN IF s1.exc # NoExc THEN s1
            ELSE [s2 EXCEPT !.objs[v].changed = FALSE]

on_tick(st, v) ==
    IF ~st.objs[v].changed THEN st
    ELSE LET s1 == on_tick_subvars(st, v, 1) IN
         IF s1.exc # NoExc THEN s1
         ELSE on_tick_subscribers(on_tick_commit(s1, v), v, 1)

subscribe_staged(st, v, key, w) ==
    LET s1 == [st EXCEPT !.objs[v].subs =
                  Append(@, [weak |-> TRUE, key |-> key, w |-> w, cb |-> "-"])]
    IN dispatch(s1, w, key, s1.objs[v].new)

subscribe(st, v, key, w) ==
    LET s1 == [st EXCEPT !.objs[v].subs =
                  Append(@, [weak |-> TRUE, key |-> key, w |-> w, cb |-> "-"])]
    IN dispatch(s1, w, key, s1.objs[v].last)

watch_immediate(st, v, cb) ==
    LET s1 == [st EXCEPT !.objs[v].subs =
                  Append(@, [weak |-> FALSE, key |-> "-", w |-> 0, cb |-> cb])]
    IN Log(s1, "notify", v, "-", s1.objs[v].last, Len(s1.objs[v].subs), cb)

watch(st, v, cb) ==
    [st EXCEPT !.objs[v].subs =
        Append(@, [weak |-> FALSE, key |-> "-", w |-> 0, cb |-> cb])]

NewId(st) == Len(st.objs) + 1

derive(st, v, fn) ==
    LET dv == NewId(st)
        s1 == [st EXCEPT !.objs = Append(@,
                  Var_init(<<">>", v>>, fn, Apply(fn, st.objs[v].last)))]
        r  == e_change(s1, K_T, "base._change")
        s2 == register(r.st, dv, r.key, "on_change")
    IN subscribe(s2, v, r.key, dv)

concat_staged(st, a, b) ==
    LET cv == NewId(st)
        tu == <<st.objs[a].new, st.objs[b].new>>
        s1 == [st EXCEPT !.objs = Append(@, Var_init(<<"*", a, b>>, "-", tu))]
        rt == e_change(s1, K_T, "base.change_t")
        ru == e_change(rt.st, K_U, "base.change_u")
        s2 == register(ru.st, cv, rt.key, "on_t_change")
        s3 == register(s2, cv, ru.key, "on_u_change")
        s4 == subscribe(s3, a, rt.key, cv)
        s5 == subscribe(s4, b, ru.key, cv)
        s6 == [s5 EXCEPT !.objs[a].subvars = Append(@, cv)]
    IN [s6 EXCEPT !.objs[b].subvars = Append(@, cv)]

concat(st, a, b) ==
    LET cv == NewId(st)
        tu == <<st.objs[a].last, st.objs[b].last>>
        s1 == [st EXCEPT !.objs = Append(@, Var_init(<<"*", a, b>>, "-", tu))]
        rt == e_change(s1, K_T, "base.change_t")
        ru == e_change(rt.st, K_U, "base.change_u")
        s2 == register(ru.st, cv, rt.key, "on_t_change")
        s3 == register(s2, cv, ru.key, "on_u_change")
        s4 == subscribe(s3, a, rt.key, cv)
        s5 == subscribe(s4, b, ru.key, cv)
        s6 == [s5 EXCEPT !.objs[a].subvars = Append(@, cv)]
    IN [s6 EXCEPT !.objs[b].subvars = Append(@, cv)]

\* concat of lib/base.py: the new var holds (*p, *q)
Lib_concat(st, a, b) ==
    LET cv == NewId(st)
        pq == st.objs[a].last \o st.objs[b].last
        s1 == [st EXCEPT !.objs = Append(@, Var_init(<<"*", a, b>>, "-", pq))]
        rp == e_change(s1, K_P, "base.change_p")
        rq == e_change(rp.st, K_Q, "base.change_q")
        s2 == register(rq.st, cv, rp.key, "on_p_change")
        s3 == register(s2, cv, rq.key, "on_q_change")
        s4 == subscribe(s3, a, rp.key, cv)
        s5 == subscribe(s4, b, rq.key, cv)
        s6 == [s5 EXCEPT !.objs[a].subvars = Append(@, cv)]
    IN [s6 EXCEPT !.objs[b].subvars = Append(@, cv)]

\* ---- the application: one action per top-level call ----------------------
Objs(kind) == {o \in 1..Len(objs) : objs[o].kind = kind}
Alive == {o \in 1..Len(objs) : objs[o].alive}
AliveVars == Alive \cap Objs("var")
AliveWidgets == Alive \cap Objs("widget")
AppKeys == {E_KEY}
AppCallbacks == {"cb1"}

\* how a var was built, read from the name its constructor was given
IsSource(v) == objs[v].name = <<>>
IsDerived(v) == objs[v].name # <<>> /\ objs[v].name[1] = ">>"
IsConcat(v) == objs[v].name # <<>> /\ objs[v].name[1] = "*"

\* subscriptions the application made itself (derive and concat make their own)
RECURSIVE SumLen(_, _)
SumLen(f, n) == IF n = 0 THEN 0 ELSE f[n] + SumLen(f, n - 1)
AppSubs ==
    SumLen([o \in 1..Len(objs) |->
               Cardinality({i \in 1..Len(objs[o].subs) :
                   \/ ~objs[o].subs[i].weak
                   \/ objs[o].subs[i].key \in AppKeys})],
           Len(objs))

St0 == [objs |-> objs, reg |-> reg, trace |-> <<>>, exc |-> NoExc]

Finish(st, o) ==
    /\ objs' = st.objs
    /\ reg' = st.reg
    /\ trace' = st.trace
    /\ op' = o

\* v = Var(name, x)
NewVar ==
    \E x \in Vals :
        /\ Len(objs) < MaxObjs
        /\ Finish([St0 EXCEPT !.objs = Append(@, Var_init(<<>>, "-", x))],
                  <<"Var", Len(objs) + 1, x>>)

\* an application widget whose constructor registers a handler for its key
\* (the application builds its widgets before its vars: ids are only names)
NewWidget ==
    \E key \in AppKeys :
        /\ Len(objs) < MaxObjs
        /\ Cardinality(Objs("widget")) < MaxWidgets
        /\ Objs("var") = {}
        /\ Finish(register([St0 EXCEPT !.objs = Append(@, Widget_init("widget"))],
                           Len(objs) + 1, key, "h1"),
                  <<"Widget", Len(objs) + 1>>)

Derive ==
    \E v \in AliveVars : \E fn \in Fns :
        /\ Len(objs) < MaxObjs
        /\ Finish(derive(St0, v, fn), <<"derive", v, Len(objs) + 1>>)

Concat ==
    \E a \in AliveVars : \E b \in AliveVars :
        /\ Len(objs) < MaxObjs
        /\ Finish(concat(St0, a, b), <<"concat", a, b, Len(objs) + 1>>)

Subscribe ==
    \E v \in AliveVars : \E key \in AppKeys : \E w \in AliveWidgets :
        /\ AppSubs < MaxSubs
        /\ Finish(subscribe(St0, v, key, w), <<"subscribe", v, w, key>>)

Watch ==
    \E v \in AliveVars : \E cb \in AppCallbacks :
        /\ AppSubs < MaxSubs
        /\ Finish(watch(St0, v, cb), <<"watch", v, cb>>)

\* the payloads of v's type: a source holds 0..MaxVal, a derived var what its
\* mapping function returns, a concat var a pair
RECURSIVE Range(_)
Range(v) ==
    IF IsSource(v) THEN Vals
    ELSE IF IsDerived(v)
         THEN {Apply(objs[v].fn, y) : y \in Range(objs[v].name[2])}
         ELSE Range(objs[v].name[2]) \X Range(objs[v].name[3])

\* v.change(x), on a source or on a derived var (a concat var is written by
\* its operands' notifications only)
Change ==
    \E v \in AliveVars : \E x \in Range(v) :
        /\ ~IsConcat(v)
        /\ Finish(change(St0, v, x),
                  <<"change", v, x,
                    IF objs[v].changed THEN <<objs[v].new>> ELSE <<>> >>)

\* v.dispatch(E_TICK); when the call just before was a change(y) of v that
\* overwrote a staged x, op remembers <<y, x>>
Tick ==
    \E v \in AliveVars :
        Finish(dispatch(St0, v, E_TICK, NoPayload),
               <<"tick", v,
                 IF op[1] = "change" /\ op[2] = v /\ op[4] # <<>>
                 THEN <<op[3], op[4][1]>> ELSE <<>> >>)

\* one frame of the driver: the tick reaches every source var of the
\* application, in the order a root Group over them forwards it
RECURSIVE SeqOf(_, _)
SeqOf(S, n) ==
    IF n = 0 THEN <<>>
    ELSE IF n \in S THEN Append(SeqOf(S, n - 1), n) ELSE SeqOf(S, n - 1)
Sources == {v \in AliveVars : IsSource(v)}

Frame ==
    /\ Sources # {}
    /\ Finish(Group_bubble(St0, SeqOf(Sources, Len(objs)), E_TICK, NoPayload, 1),
              <<"frame", 0>>)

\* the last strong reference to o is dropped and the collector frees it
Collect ==
    \E o \in Alive :
        /\ Len(objs) - Cardinality(Alive) < MaxDead
        /\ Finish([St0 EXCEPT !.objs[o] =
                      [Widget_init(objs[o].kind) EXCEPT !.alive = FALSE,
                                                        !.name = objs[o].name]],
                  <<"collect", o>>)

Init ==
    /\ objs = <<>>
    /\ reg = [p \in Prefixes |-> NoHandler]
    /\ trace = <<>>
    /\ op = <<"init", 0>>

Next ==
    \/ NewVar \/ NewWidget
    \/ Derive \/ Concat \/ Subscribe \/ Watch
    \/ Change \/ Tick \/ Frame \/ Collect

Spec == Init /\ [][Next]_vars

\* ---- a widget tree: plain widgets and Groups, handlers registered by the
\* ---- application, events dispatched to any node ---------------------------
MaxTree == 3          \* widgets and groups of the tree
MaxHandlers == 2      \* handler entries registered in the tree
MaxScreen == 2        \* screens are up to MaxScreen x MaxScreen cells

TreeKeys == {E_KEY, E_TICK}
TreeHandlers == {"h1", "h2"}

Group_init(widgets) == [Widget_init("group") EXCEPT !.widgets = widgets]

SimpleText_init(y, x, text) ==
    [Widget_init("text") EXCEPT !.y = y, !.x = x, !.text = text]

\* a text of two characters; the application gives each text a row of its own
TreeText ==
    /\ Len(objs) < MaxTree
    /\ Finish([St0 EXCEPT !.objs =
                  Append(@, SimpleText_init(Len(objs), 0, <<"a", "b">>))],
              <<"SimpleText", Len(objs) + 1>>)

TreeWidget ==
    /\ Len(objs) < MaxTree
    /\ Finish([St0 EXCEPT !.objs = Append(@, Widget_init("widget"))],
              <<"Widget", Len(objs) + 1>>)

TreeGroup ==
    \E a \in 1..Len(objs) : \E b \in 0..Len(objs) :
        /\ Len(objs) < MaxTree
        /\ Finish([St0 EXCEPT !.objs = Append(@,
                      Group_init(IF b = 0 THEN <<a>> ELSE <<a, b>>))],
                  <<"Group", Len(objs) + 1>>)

TreeRegistered ==
    SumLen([o \in 1..Len(objs) |->
               Cardinality({k \in TreeKeys : objs[o].handlers[k] # NoHandler})],
           Len(objs))

TreeRegister ==
    \E w \in 1..Len(objs) : \E key \in TreeKeys : \E h \in TreeHandlers :
        /\ objs[w].handlers[key] # NoHandler \/ TreeRegistered < MaxHandlers
        /\ Finish(register(St0, w, key, h),
                  <<"register", w, key, h, objs[w].handlers[key]>>)

\* o.dispatch(key, p); when the call just before was register(key, h2) on o
\* replacing h1, op remembers <<h2, h1>>
TreeDispatch ==
    \E o \in 1..Len(objs) : \E key \in TreeKeys : \E p \in Vals :
        Finish(dispatch(St0, o, key, p),
               <<"dispatch", o, key, p,
                 IF op[1] = "register" /\ op[2] = o /\ op[3] = key
                 THEN <<op[4], op[5]>> ELSE <<>> >>)

TreeNext ==
    TreeWidget \/ TreeText \/ TreeGroup \/ TreeRegister \/ TreeDispatch

SpecTree == Init /\ [][TreeNext]_vars

\* ---- the same tree built with the Group of lib/base.py, whose __init__
\* ---- stores the children and does not call Widget.__init__ ----------------
Lib_Group_init(widgets) ==
    [Widget_init("group") EXCEPT !.widgets = widgets, !.table = FALSE]

LibGroup ==
    \E a \in 1..Len(objs) : \E b \in 0..Len(objs) :
        /\ Len(objs) < MaxTree
        /\ Finish([St0 EXCEPT !.objs = Append(@,
                      Lib_Group_init(IF b = 0 THEN <<a>> ELSE <<a, b>>))],
                  <<"Group", Len(objs) + 1>>)

LibNext ==
    TreeWidget \/ TreeText \/ LibGroup \/ TreeRegister \/ TreeDispatch

SpecLib == Init /\ [][LibNext]_vars

\* ---- drawables: Rect and Char built from arbitrary character payloads ----
MaxDraw == 2          \* drawables kept on the heap
MaxGlyphs == 2        \* a payload has up to MaxGlyphs glyphs
Glyphs == {"a", "b"}
Payloads == UNION {[1..n -> Glyphs] : n \in 0..MaxGlyphs}

DrawRect ==
    \E y \in -1..1 : \E x \in -1..1 : \E height \in 1..2 : \E width \in 1..2 :
    \E char \in Payloads :
        LET st == Rect_post_init(St0, y, x, height, width, char) IN
        /\ Len(objs) < MaxDraw
        /\ Finish(st, <<"Rect", char, st.exc, Len(objs)>>)

DrawChar ==
    \E val \in Payloads :
        LET st == Char_init(St0, val) IN
        /\ Len(objs) < MaxDraw
        /\ Finish(st, <<"Char", val, st.exc, Len(objs)>>)

DrawCells ==
    \E o \in 1..Len(objs) : \E h \in 0..MaxScreen : \E w \in 0..MaxScreen :
        /\ objs[o].kind = "rect"
        /\ Finish(St0, <<"cells", o, h, w, cells(St0, o, h, w)>>)

DrawNext == DrawRect \/ DrawChar \/ DrawCells

SpecDraw == Init /\ [][DrawNext]_vars

\* ---- Rect.cells on one Rect of any position and size ---------------------
MaxCoord == 3         \* positions are -MaxCoord..MaxCoord, sizes -1..MaxCoord+1

ClipInit ==
    /\ \E y \in -MaxCoord..MaxCoord : \E x \in -MaxCoord..MaxCoord :
       \E height \in -1..MaxCoord + 1 : \E width \in -1..MaxCoord + 1 :
       \E char \in {<<"a">>, <<"b">>} :
          objs = Rect_post_init([objs |-> <<>>, reg |-> <<>>, trace |-> <<>>, exc |-> NoExc], y, x, height, width, char).objs
    /\ reg = [p \in Prefixes |-> NoHandler]
    /\ trace = <<>>
    /\ op = <<"init", 0>>

SpecClip == ClipInit /\ [][DrawCells]_vars

\* ---- vars with tuple payloads (lib/base.py) and their concat --------------
MaxArity == 2         \* a payload tuple has 0..MaxArity elements
MaxTupleObjs == 3     \* two operands and their concat
Tuples == UNION {[1..n -> Vals] : n \in 0..MaxArity}

TupleInit ==
    /\ objs = <<>>
    /\ reg = [p \in {"base._change", "base.change_p", "base.change_q"} |-> NoHandler]
    /\ trace = <<>>
    /\ op = <<"init", 0>>

\* v = Var(name, initial)
TupleVar ==
    \E x \in Tuples :
        /\ Len(objs) < MaxTupleObjs - 1
        /\ Finish([St0 EXCEPT !.objs = Append(@, Var_init(<<>>, "-", x))],
                  <<"Var", Len(objs) + 1, x>>)

\* cv = p.concat(q) of two different vars
TupleConcat ==
    \E a \in Objs("var") : \E b \in Objs("var") :
        /\ a # b /\ IsSource(a) /\ IsSource(b)
        /\ Len(objs) < MaxTupleObjs
        /\ Finish(Lib_concat(St0, a, b), <<"concat", a, b, Len(objs) + 1>>)

\* v.change(*x) with a tuple of v's arity
TupleChange ==
    \E v \in Objs("var") : \E x \in Tuples :
        /\ IsSource(v) /\ Len(x) = Len(objs[v].last)
        /\ Finish(change(St0, v, x), <<"change", v, x, <<>> >>)

TupleNext == TupleVar \/ TupleConcat \/ TupleChange \/ Tick

SpecTuple == TupleInit /\ [][TupleNext]_vars

\* ---- TickReducer over a target widget -------------------------------------
MaxN == 3             \* reducers are built with n in -1..MaxN
MaxTicks == 9         \* ticks dispatched to one reducer
ReducerEvents == {E_INC, E_NEXT}

\* TickReducer(n, event, wrapped): ValueError unless n >= 1
TickReducer_init(st, n, event, wrapped) ==
    IF n <= 0 THEN [st EXCEPT !.exc = "ValueError"]
    ELSE register([st EXCEPT !.objs = Append(@,
                      [Widget_init("reducer") EXCEPT
                          !.n = n, !.event = event, !.wrapped = wrapped])],
                  NewId(st), E_TICK, "TickReducer.on_tick")

\* the widget the reducer feeds, with a handler for one of the events
ReducerTarget ==
    \E key \in ReducerEvents :
        /\ objs = <<>>
        /\ Finish(register([St0 EXCEPT !.objs = Append(@, Widget_init("widget"))],
                           1, key, "h1"),
                  <<"Widget", 1, key>>)

NewReducer ==
    \E n \in -1..MaxN : \E event \in ReducerEvents :
        LET st == TickReducer_init(St0, n, event, 1) IN
        /\ Len(objs) = 1
        /\ Finish(st, <<"TickReducer", Len(objs) + 1, 0, n, st.exc>>)

\* the reducer receives its next tick; op counts the ticks it has received
ReducerTick ==
    /\ Len(objs) = 2
    /\ op[3] < MaxTicks
    /\ Finish(dispatch(St0, 2, E_TICK, NoPayload), <<"tick", 2, op[3] + 1>>)

ReducerNext == ReducerTarget \/ NewReducer \/ ReducerTick

SpecReducer == Init /\ [][ReducerNext]_vars

\* ---- WidgetSequence over leaf widgets --------------------------------------
MaxSteps == 2         \* steps handed to a WidgetSequence

WidgetSequence_init(steps, on_done_notify) ==
    [Widget_init("sequence") EXCEPT
        !.widgets = steps, !.wrapped = on_done_notify,
        !.handlers[E_SEQ_NEXT] = "WidgetSequence.on_next"]

\* seq = WidgetSequence(steps, on_done_notify) over widgets built before it
NewSequence ==
    \E n \in 0..MaxSteps : \E steps \in [1..n -> 1..Len(objs)] :
    \E notify \in 1..Len(objs) :
        /\ Objs("sequence") = {}
        /\ Finish([St0 EXCEPT !.objs =
                      Append(@, WidgetSequence_init(steps, notify))],
                  <<"WidgetSequence", Len(objs) + 1>>)

SeqDispatch ==
    \E s \in Objs("sequence") : \E key \in {E_SEQ_NEXT, E_KEY, E_TICK} :
        Finish(dispatch(St0, s, key, 0), <<"dispatch", s, key, 0>>)

SeqCells ==
    \E s \in Objs("sequence") : \E h \in 1..MaxScreen : \E w \in 1..MaxScreen :
        Finish(St0, <<"cells", s, h, w, cells(St0, s, h, w)>>)

\* a leaf registers a handler for a key event or for E_DONE
SeqRegister ==
    \E w \in 1..Len(objs) : \E key \in {E_KEY, E_DONE} :
        /\ objs[w].kind # "sequence"
        /\ objs[w].handlers[key] = NoHandler
        /\ SumLen([o \in 1..Len(objs) |->
                      Cardinality({k \in {E_KEY, E_DONE} :
                                      objs[o].handlers[k] # NoHandler})],
                  Len(objs)) < MaxHandlers
        /\ Finish(register(St0, w, key, "h1"), <<"register", w, key>>)

\* the leaves are built before the sequence that takes them as steps
SeqNext ==
    \/ (TreeWidget \/ TreeText) /\ Objs("sequence") = {}
    \/ SeqRegister
    \/ NewSequence \/ SeqDispatch \/ SeqCells

SpecSequence == Init /\ [][SeqNext]_vars

\* ---- the snake and its three vars ------------------------------------------
MaxGrid == 2          \* the snake stays on rows and columns 0..MaxGrid
MaxBody == 3          \* length is raised up to MaxBody
MaxQueue == 2         \* control events waiting in the queue

\* Snek(y, x, head_pos, length, dead)
Snek_init(st, y, x, head_pos, length, dead) ==
    LET s1 == [st EXCEPT !.objs = Append(@,
                  [Widget_init("snek") EXCEPT
                      !.body = << <<y, x>>, <<y, x - 1>> >>, !.dir = <<0, 1>>,
                      !.handlers[E_RIGHT] = "on_right",
                      !.handlers[E_LEFT] = "on_left",
                      !.handlers[E_UP] = "on_up",
                      !.handlers[E_DOWN] = "on_down",
                      !.handlers[E_ADVANCE] = "on_advance",
                      !.handlers[E_REVERSE] = "on_reverse",
                      !.head_pos = head_pos, !.length = length, !.dead = dead])]
    IN change(change(s1, length, 2), head_pos, <<y, x>>)

\* the vars of game() and the snake
SnakeGame ==
    \E y \in 0..MaxGrid : \E x \in 1..MaxGrid :
        /\ objs = <<>>
        /\ Finish(Snek_init([St0 EXCEPT !.objs = <<
                                Var_init(<<"head_pos">>, "-", <<0, 0>>),
                                Var_init(<<"length">>, "-", 0),
                                Var_init(<<"dead">>, "-", FALSE) >>],
                            y, x, 1, 2, 3),
                  <<"Snek", 4, 0>>)

\* an arrow or reverse event reaches the snake (from OnKey); op counts the
\* arrow turns that took effect since the last advance
SnakeControl ==
    \E key \in Arrows \cup {E_REVERSE} :
        LET st == dispatch(St0, 4, key, NoPayload) IN
        /\ Len(objs) = 4
        /\ Len(st.objs[4].mq) <= MaxQueue
        /\ Finish(st, <<key, 4,
                        op[3] + (IF key \in Arrows /\ st.objs[4].dir # objs[4].dir
                                 THEN 1 ELSE 0)>>)

\* a frame whose tick makes the TickReducer send E_ADVANCE to the snake and
\* then reaches the three vars, which follow it in the root Group; the walls
\* end the game before the head leaves the grid
SnakeAdvance ==
    LET st == Group_bubble(dispatch(St0, 4, E_ADVANCE, NoPayload),
                           <<1, 2, 3>>, E_TICK, NoPayload, 1) IN
    /\ Len(objs) = 4
    /\ st.objs[4].body[1] \in (0..MaxGrid) \X (0..MaxGrid)
    /\ Finish(st, <<E_ADVANCE, 4,
                    IF objs[4].mq # <<>> /\ Head(objs[4].mq) \in Arrows
                       /\ st.objs[4].dir # objs[4].dir
                    THEN 1 ELSE 0>>)

\* food eaten: length.change(n)
SnakeEat ==
    \E n \in 3..MaxBody :
        /\ Len(objs) = 4
        /\ value(St0, 2) < n
        /\ Finish(change(St0, 2, n), <<"eat", 4, op[3]>>)

\* a frame whose tick only reaches the three vars
SnakeTick ==
    /\ Len(objs) = 4
    /\ Finish(Group_bubble(St0, <<1, 2, 3>>, E_TICK, NoPayload, 1),
              <<"frame", 4, op[3]>>)

SnakeNext ==
    SnakeGame \/ SnakeControl \/ SnakeAdvance \/ SnakeEat \/ SnakeTick

SpecSnake == Init /\ [][SnakeNext]_vars

\* ---- Reactive -----------------------------------------------------------
MaxHeap == 14         \* objects on the heap of the Reactive application

SimpleText_of(x) == SimpleText_init(0, 0, <<x>>)

\* the widget builders handed to Reactive: "label" shows the value as a text,
\* "nested" wraps a Reactive of the same var around such a label
Builders == {"label", "nested"}

\* fn(x): returns the state and the widget built
Reactive_fn(st, fn, var, x) ==
    IF fn = "nested" THEN Reactive(st, var, "label")
    ELSE [st |-> [st EXCEPT !.objs = Append(@, SimpleText_of(x))],
          w |-> NewId(st)]

Reactive_on_change_keeps(st, r, new_state) == st

Reactive_on_change(st, r, new_state) ==
    LET b == Reactive_fn(st, st.objs[r].fn, st.objs[r].var, new_state)
    IN [b.st EXCEPT !.objs[r].widget = b.w]

Reactive(st, var, fn) ==
    LET r  == NewId(st)
        s1 == [st EXCEPT !.objs = Append(@,
                  [Widget_init("reactive") EXCEPT !.fn = fn, !.var = var])]
        b  == Reactive_fn(s1, fn, var, value(s1, var))
        s2 == [b.st EXCEPT !.objs[r].widget = b.w]
        k  == e_change(s2, K_E, "base._change")
        s3 == register(k.st, r, k.key, "_on_change")
    IN [st |-> subscribe(s3, var, k.key, r), w |-> r]

ReactVar ==
    \E x \in Vals :
        /\ objs = <<>>
        /\ Finish([St0 EXCEPT !.objs = Append(@, Var_init(<<>>, "-", x))],
                  <<"Var", 1, x>>)

ReactNew ==
    \E v \in AliveVars : \E fn \in Builders :
        LET b == Reactive(St0, v, fn) IN
        /\ Len(b.st.objs) <= MaxHeap
        /\ Finish(b.st, <<"Reactive", v, b.w>>)

ReactTick == Tick /\ Len(objs') <= MaxHeap

ReactDispatch ==
    \E r \in Objs("reactive") : \E key \in TreeKeys : \E p \in Vals :
        Finish(dispatch(St0, r, key, p), <<"dispatch", r, key, p>>)

ReactNext == ReactVar \/ ReactNew \/ Change \/ ReactTick \/ ReactDispatch

SpecReactive == Init /\ [][ReactNext]_vars

\* ---- the driver loop over a small game ------------------------------------
\* game(): score and screen_size vars, a Reactive label of the score, OnKey
\* feeding a scoring widget, GiveUp, and one widget subscribed to score: either
\* a Boundary-like one that changes the var from inside its notification or a
\* Seqw that raises Quit when its last step is popped; all under a root Group.
Subscribers ==
    {[kind |-> "Boundary", limit |-> l, to |-> z, steps |-> 0] :
        l \in 1..MaxVal, z \in Vals}
    \cup {[kind |-> "Seqw", limit |-> 0, to |-> 0, steps |-> n] : n \in 1..2}

\* var.subscribe(key, self) first, self.register(key, handler) after it
Subscriber(st, var, c) ==
    LET w   == NewId(st)
        key == IF c.kind = "Boundary" THEN E_UPDATE ELSE E_NEXT
        s1  == [st EXCEPT !.objs = Append(@,
                  [Widget_init("widget") EXCEPT
                      !.var = var, !.limit = c.limit, !.to = c.to,
                      !.steps = c.steps])]
        s2  == subscribe(s1, var, key, w)
    IN [st |-> register(s2, w, key,
                        IF c.kind = "Boundary" THEN "on_update" ELSE "on_next"),
        w |-> w]

LoopGame ==
    \E c \in Subscribers : \E first \in BOOLEAN :
        LET s1 == [St0 EXCEPT !.objs = <<
                      Var_init(<<"score">>, "-", 0),
                      [Var_init(<<"screen_size">>, "-", <<0, 0>>) EXCEPT
                          !.handlers[E_RESIZE] = "change"],
                      [Widget_init("widget") EXCEPT
                          !.var = 1, !.handlers[E_INC] = "_eat"],
                      [Widget_init("widget") EXCEPT
                          !.keys = {"a"}, !.event = E_INC, !.wrapped = 3,
                          !.handlers[E_KEY] = "on_key"],
                      [Widget_init("widget") EXCEPT
                          !.keys = {"q"}, !.handlers[E_KEY] = "on_quit"] >>]
            r1 == Reactive(s1, 1, "label")
            b1 == Subscriber(r1.st, 1, c)
            b2 == Subscriber(s1, 1, c)
            r2 == Reactive(b2.st, 1, "label")
            s2 == IF first THEN b1.st ELSE r2.st
            r  == IF first THEN r1.w ELSE r2.w
            b  == IF first THEN b1.w ELSE b2.w
            s3 == [s2 EXCEPT !.objs = Append(@, Group_init(<<r, 4, 5, b, 1, 2>>))]
        IN /\ objs = <<>>
           /\ Finish(s3, <<"game", Len(s3.objs)>>)

\* the loop calls root.dispatch(key, payload)
Drive(st, root, key, payload) ==
    dispatch(Log(st, "drive", root, key, payload, 0, "-"), root, key, payload)

Running == op[1] \in {"resize", "iterate", "probe"}

\* my, mx = win.getmaxyx(); root.dispatch(E_RESIZE, (my, mx)), outside the try
LoopStart ==
    \E my \in 1..MaxScreen : \E mx \in 1..MaxScreen :
        LET st == Drive(St0, op[2], E_RESIZE, <<my, mx>>) IN
        /\ op[1] = "game"
        /\ Finish(st, <<IF st.exc = NoExc THEN "resize" ELSE "raised",
                        op[2], <<my, mx>>, st.exc>>)

Chars == {"-1", "KEY_RESIZE", "a", "q", "z"}

Loop_body_tick_else(st, root, ch, my, mx) ==
    LET s1 == IF ch = "-1" THEN Drive(st, root, E_TICK, NoPayload)
              ELSE IF ch = "KEY_RESIZE"
                   THEN Drive(st, root, E_RESIZE, <<my, mx>>)
                   ELSE Drive(st, root, E_KEY, ch)
    IN IF s1.exc # NoExc THEN s1
       ELSE Log(s1, "cells", root, "-", <<my, mx>>, 0, "-")

\* one pass of the while loop: at most one input event, the tick, and, unless
\* an exception came out of the try block, root.cells(my, mx)
Loop_body(st, root, ch, my, mx) ==
    LET s1 == IF ch = "-1" THEN st
              ELSE IF ch = "KEY_RESIZE"
                   THEN Drive(st, root, E_RESIZE, <<my, mx>>)
                   ELSE Drive(st, root, E_KEY, ch)
        s2 == IF s1.exc # NoExc THEN s1
              ELSE Drive(s1, root, E_TICK, NoPayload)
    IN IF s2.exc # NoExc THEN s2
       ELSE Log(s2, "cells", root, "-", <<my, mx>>, 0, "-")

\* ch = win.getch(); my, mx = win.getmaxyx(); the pass; except Quit: return
LoopIterate ==
    \E ch \in Chars : \E my \in 1..MaxScreen : \E mx \in 1..MaxScreen :
        LET root == op[2]
            st == Loop_body(St0, root, ch, my, mx)
        IN /\ Running
           /\ ch = "a" => value(St0, 1) < MaxVal
           /\ Len(st.objs) <= MaxHeap
           /\ Finish(st, <<IF st.exc = NoExc THEN "iterate"
                           ELSE IF st.exc = "Quit" THEN "return" ELSE "raised",
                           root, ch,
                           IF st.exc = NoExc THEN cells(st, root, my, mx)
                           ELSE <<>> >>)

\* the application hands the root an event nothing in the tree is registered
\* for, or a key no OnKey or GiveUp listens to
LoopProbe ==
    \E e \in {<<K_U, 0>>, <<K_T, 1>>, <<E_KEY, "z">>} :
        /\ Running
        /\ Finish(dispatch(St0, op[2], e[1], e[2]),
                  <<"probe", op[2], e[1], e[2]>>)

LoopNext == LoopGame \/ LoopStart \/ LoopIterate \/ LoopProbe

SpecLoop == Init /\ [][LoopNext]_vars

\* ---- the change-key registry called with any payload type and prefix ------
MaxCalls == 3         \* consecutive e_change calls op remembers

KeyTypes == {K_T, K_U, K_E}

EChange ==
    \E t \in KeyTypes : \E prefix \in Prefixes :
        LET r == e_change(St0, t, prefix)
            before == IF op[1] = "e_change" THEN op[2] ELSE <<>>
        IN /\ Len(before) < MaxCalls
           /\ Finish(r.st, <<"e_change",
                  Append(before, [t |-> t, prefix |-> prefix, key |-> r.key])>>)

SpecRegistry == Init /\ [][EChange]_vars

\* ---- EventKey objects made by the application, used on one widget ---------
MaxKeyObjs == 4       \* the widget and the EventKey objects
KeyNames == {"app.a", "app.b"}

EventKey_init(name) == [Widget_init("key") EXCEPT !.name = <<name>>]

\* the dict key an EventKey object is: no __eq__ or __hash__ is defined, so
\* it is the object itself
KeyOf_by_name(st, k) ==
    KeyTokens[CHOOSE o \in 1..Len(st.objs) :
                 /\ st.objs[o].kind = "key" /\ st.objs[o].name = st.objs[k].name
                 /\ \A o2 \in 1..(o - 1) :
                       ~(st.objs[o2].kind = "key"
                         /\ st.objs[o2].name = st.objs[k].name)]

KeyOf(st, k) == KeyTokens[k]

KeysWidget ==
    /\ objs = <<>>
    /\ Finish([St0 EXCEPT !.objs = Append(@, Widget_init("widget"))],
              <<"Widget", 1>>)

KeysEventKey ==
    \E name \in KeyNames :
        /\ objs # <<>>
        /\ Len(objs) < MaxKeyObjs
        /\ Finish([St0 EXCEPT !.objs = Append(@, EventKey_init(name))],
                  <<"EventKey", Len(objs) + 1, name>>)

KeysRegister ==
    \E w \in Objs("widget") : \E k \in Objs("key") : \E h \in TreeHandlers :
        Finish(register(St0, w, KeyOf(St0, k), h), <<"register", w, k, h>>)

KeysDispatch ==
    \E w \in Objs("widget") : \E k \in Objs("key") : \E p \in Vals :
        Finish(dispatch(St0, w, KeyOf(St0, k), p), <<"dispatch", w, k, p>>)

KeysNext == KeysWidget \/ KeysEventKey \/ KeysRegister \/ KeysDispatch

SpecKeys == Init /\ [][KeysNext]_vars

\* ---- reading the trace of the last call ---------------------------------
Idx == 1..Len(trace)
Entries(ev, o) == {n \in Idx : trace[n].ev = ev /\ trace[n].o = o}
Commits(v) == Entries("commit", v)
Ticked == op[1] \in {"tick", "frame"}
Parent(v) == objs[v].name[2]
Other(v) == objs[v].name[3]
\* the entries of v's notification loop that follows its commit at n
Loop(v, n) == {m \in Entries("notify", v) :
                  m > n /\ \A c \in Commits(v) : c <= n \/ c > m}

\* subscription i of v still reaches something: a watch callback is held
\* strongly, a subscribed widget only weakly
LiveSub(v, i) == ~objs[v].subs[i].weak \/ objs[objs[v].subs[i].w].alive
\* entry n is the dispatch of (key, p) arriving at widget w
Delivered(n, w, key, p) ==
    /\ n \in Idx
    /\ trace[n].ev \in {"handler", "bubble"}
    /\ trace[n].o = w /\ trace[n].k = key /\ trace[n].p = p

\* C1: for dv = v.derive(f), built before the change, a tick in which v
\* commits x leaves dv.value() = f(x) and dv not dirty, and so on down a chain
\* of derive calls: no derived var needs a tick of its own.
C1_DeriveSettlesInTick ==
    \A dv \in AliveVars :
        (IsDerived(dv) /\ Ticked /\ Commits(Parent(dv)) # {})
            => /\ value(St0, dv) = Apply(objs[dv].fn, value(St0, Parent(dv)))
               /\ ~objs[dv].changed

C1_Witness ==
    \E dv2 \in AliveVars :
        /\ IsDerived(dv2) /\ IsDerived(Parent(dv2))
        /\ LET dv == Parent(dv2)
               v == Parent(dv)
           IN /\ op[1] = "tick" /\ op[2] = v
              /\ Commits(v) # {}
              /\ objs[dv].fn # objs[dv2].fn
              /\ trace[1].cur # value(St0, v)
              /\ value(St0, dv2) =
                    Apply(objs[dv2].fn, Apply(objs[dv].fn, value(St0, v)))

\* C2: change(x) then change(y) with no tick in between, then one tick:
\* value() = y and every live subscriber (subscribe or watch) is notified
\* exactly once by that tick, with y.
C2_LastWriteWins ==
    (op[1] = "tick" /\ op[3] # <<>>) =>
        LET v == op[2]
            y == op[3][1]
        IN /\ value(St0, v) = y
           /\ Cardinality(Commits(v)) = 1
           /\ \A i \in 1..Len(objs[v].subs) :
                 LiveSub(v, i) =>
                    /\ Cardinality({m \in Entries("notify", v) : trace[m].i = i}) = 1
                    /\ \A m \in Entries("notify", v) : trace[m].p = y

C2_Witness ==
    /\ op[1] = "tick" /\ op[3] # <<>>
    /\ op[3][1] # op[3][2]
    /\ \E m \in Entries("notify", op[2]) :
          trace[m].p = op[3][1] /\ objs[op[2]].subs[trace[m].i].key \in AppKeys \cup {"-"}

\* C3: after change() on some source vars and one tick delivered to every
\* source var, no var is dirty, every concat var holds the pair of its
\* operands' values and every var derived from it holds f of that pair.
\* (Stated for graphs whose concat vars have two distinct operands, and for a
\* frame in which some source var commits a value other than its old one.)
C3_GraphSettlesInOneTick ==
    (/\ op[1] = "frame"
     /\ \A cv \in AliveVars : IsConcat(cv) => Parent(cv) # Other(cv)
     /\ \E v \in Sources : \E c \in Commits(v) :
           \E n \in Entries("handler", v) : n < c /\ trace[n].cur # trace[c].p) =>
        \A v \in AliveVars :
            /\ ~objs[v].changed
            /\ (IsConcat(v) /\ Parent(v) \in Alive /\ Other(v) \in Alive)
                  => value(St0, v) = <<value(St0, Parent(v)), value(St0, Other(v))>>
            /\ (IsDerived(v) /\ IsConcat(Parent(v)) /\ Parent(v) \in Alive)
                  => value(St0, v) = Apply(objs[v].fn, value(St0, Parent(v)))

\* C4: for cv = a.concat(b), after a.change(x) and one tick of a, cv.value()
\* has x in a's slot and b's slot is what it was, in the pending and in the
\* committed pair; symmetrically for b.
C4_ConcatUpdatesOneSlot ==
    [][\A cv \in AliveVars :
          (/\ IsConcat(cv) /\ Parent(cv) # Other(cv)
           /\ op'[1] = "tick" /\ op'[2] \in {Parent(cv), Other(cv)}
           /\ objs[op'[2]].changed)
          => LET mine == IF op'[2] = Parent(cv) THEN 1 ELSE 2
                 theirs == 3 - mine
             IN /\ objs'[cv].last[mine] = objs'[op'[2]].last
                /\ objs'[cv].last[theirs] = objs[cv].last[theirs]
                /\ objs'[cv].new[theirs] = objs[cv].new[theirs]]_vars

\* C5: a dirty var's tick runs, in this order: on_tick of every live
\* dependent to completion while value() is still the old value; then the
\* commit (last_value becomes the pending value, dirty cleared); then the
\* subscribers, in subscription order, each with the committed value.
C5_SettleCommitNotify ==
    \A v \in AliveVars :
        /\ \A c \in Commits(v) :
              /\ trace[c].cur = trace[c].p
              /\ ~trace[c].dirty
              /\ \A d \in 1..Len(objs[v].subvars) :
                    objs[objs[v].subvars[d]].alive =>
                       \E s \in Entries("settle", v) : \E e \in Entries("settled", v) :
                          /\ s < e /\ e < c
                          /\ trace[s].i = objs[v].subvars[d]
                          /\ trace[e].i = objs[v].subvars[d]
                          /\ trace[s].dirty /\ trace[e].dirty
                          /\ trace[e].cur = trace[s].cur
                          /\ \A m \in Entries("notify", v) \cup Commits(v) :
                                m < s \/ m >= c
              /\ \A i \in 1..Len(objs[v].subs) :
                    LiveSub(v, i) => \E m \in Loop(v, c) : trace[m].i = i
              /\ \A m \in Loop(v, c) :
                    /\ trace[m].p = trace[c].p
                    /\ trace[m].cur = trace[c].p
                    /\ \A k \in Loop(v, c) : k < m => trace[k].i < trace[m].i
        /\ \A m \in Entries("notify", v) : \E c \in Commits(v) : c < m
        /\ \A s \in Entries("settle", v) \cup Entries("settled", v) :
              \E c \in Commits(v) :
                 s < c /\ \A m \in Entries("notify", v) : m < s \/ m > c

C5_Witness ==
    \E v \in AliveVars : \E c \in Commits(v) :
        /\ op[1] = "tick" /\ op[2] = v
        /\ \E s \in Entries("settle", v) :
              \E dc \in Commits(trace[s].i) : s < dc /\ dc < c
        /\ Cardinality(Loop(v, c)) >= 2
        /\ trace[1].cur # trace[c].p

\* C6: a tick delivered to a var that is not dirty changes no state, ticks no
\* dependent (even a dirty one) and notifies no subscriber.
C6_CleanTickIsNoOp ==
    [][(op'[1] = "tick" /\ ~objs[op'[2]].changed) =>
          /\ objs' = objs
          /\ reg' = reg
          /\ \A n \in 1..Len(trace') :
                trace'[n].ev \notin {"settle", "settled", "commit", "notify"}]_vars

C6_Witness ==
    /\ op[1] = "tick"
    /\ ~objs[op[2]].changed
    /\ Commits(op[2]) = {}
    /\ Len(trace) = 1
    /\ Len(objs[op[2]].subs) > 0
    /\ \E d \in 1..Len(objs[op[2]].subvars) :
          LET cv == objs[op[2]].subvars[d] IN objs[cv].alive /\ objs[cv].changed

\* C7: change(x) only stages: pending value and dirty flag are set; value(),
\* the subscriber list, the dependents and every other object are unchanged
\* and no handler or callback runs.  A new Var reports its initial value.
C7_ChangeOnlyStages ==
    [][/\ op'[1] = "change" =>
            /\ objs' = [objs EXCEPT ![op'[2]].new = op'[3],
                                    ![op'[2]].changed = TRUE]
            /\ value([objs |-> objs'], op'[2]) = value(St0, op'[2])
            /\ reg' = reg
            /\ trace' = <<>>
       /\ op'[1] = "Var" =>
            /\ value([objs |-> objs'], op'[2]) = op'[3]
            /\ ~objs'[op'[2]].changed]_vars

C7_Witness ==
    /\ op[1] = "change"
    /\ op[4] # <<>>
    /\ objs[op[2]].changed
    /\ objs[op[2]].new = op[3]
    /\ value(St0, op[2]) # op[3]
    /\ Len(objs[op[2]].subs) > 0
    /\ Len(objs[op[2]].subvars) > 0

\* C9: a subscriber or dependent that is no longer alive when its source
\* commits is skipped: no handler of it runs, the commit completes, and every
\* other live subscriber is still notified, in order.
C9_DeadSubscriberSkipped ==
    Ticked =>
        /\ \A n \in Idx :
              /\ objs[trace[n].o].alive
              /\ trace[n].ev \in {"settle", "settled"} => objs[trace[n].i].alive
        /\ \A v \in AliveVars : \A c \in Commits(v) :
              /\ \A i \in 1..Len(objs[v].subs) :
                    Cardinality({m \in Loop(v, c) : trace[m].i = i})
                       = IF LiveSub(v, i) THEN 1 ELSE 0
              /\ \A m \in Loop(v, c) : \A k \in Loop(v, c) :
                    k < m => trace[k].i < trace[m].i

C9_Witness ==
    \E v \in AliveVars : \E c \in Commits(v) :
        \E i \in 1..Len(objs[v].subs) : \E j \in 1..Len(objs[v].subs) :
            /\ Ticked
            /\ i < j
            /\ ~LiveSub(v, i)
            /\ \E d \in 1..Len(objs[v].subvars) :
                  objs[v].subvars[d] = objs[v].subs[i].w
            /\ LiveSub(v, j)
            /\ \E m \in Loop(v, c) : trace[m].i = j

\* C10: subscribe(key, widget) dispatches the var's committed value (not a
\* staged one) to widget on key, once, before it returns; afterwards every
\* commit dispatches the committed value to widget on key while it is alive.
C10_SubscribeDispatchesCommitted ==
    /\ op[1] = "subscribe" =>
          /\ Len(trace) = 1
          /\ Delivered(1, op[3], op[4], value(St0, op[2]))
    /\ Ticked =>
          \A v \in AliveVars : \A c \in Commits(v) :
             \A i \in 1..Len(objs[v].subs) :
                (objs[v].subs[i].weak /\ objs[objs[v].subs[i].w].alive) =>
                   \E m \in Loop(v, c) :
                      /\ trace[m].i = i
                      /\ Delivered(m + 1, objs[v].subs[i].w,
                                   objs[v].subs[i].key, trace[c].p)

C10_Witness ==
    /\ op[1] = "subscribe"
    /\ objs[op[2]].changed
    /\ objs[op[2]].new # value(St0, op[2])
    /\ Len(trace) = 1

\* C8: dispatch(K, payload) on a widget with a handler for K invokes that
\* handler once with the payload and never bubble, so no child sees the
\* event; with no handler for K it invokes bubble once with Event(K, payload)
\* and no handler of that widget.
C8_DispatchPrecedence ==
    op[1] = "dispatch" =>
        LET o == op[2]
            h == objs[o].handlers[op[3]]
        IN IF h # NoHandler
           THEN /\ Len(trace) = 1
                /\ Delivered(1, o, op[3], op[4])
                /\ trace[1].ev = "handler" /\ trace[1].h = h
           ELSE /\ Delivered(1, o, op[3], op[4])
                /\ Entries("bubble", o) = {1}
                /\ Entries("handler", o) = {}

C8_Witness ==
    /\ op[1] = "dispatch"
    /\ objs[op[2]].kind = "group"
    /\ objs[op[2]].handlers[op[3]] # NoHandler
    /\ \E i \in 1..Len(objs[op[2]].widgets) :
          objs[objs[op[2]].widgets[i]].handlers[op[3]] # NoHandler
    /\ Len(trace) = 1

\* C12: a var built by derive or concat is not dirty when its constructor
\* returns, and the next tick - delivered to it directly, or to an operand
\* that has nothing staged - makes it neither commit nor notify.
C12_NoChangeNoNotify ==
    [][/\ op'[1] = "derive" => ~objs'[op'[3]].changed
       /\ op'[1] = "concat" => ~objs'[op'[4]].changed
       /\ (op[1] \in {"derive", "concat"} /\ op'[1] = "tick") =>
            LET nv == op[Len(op)] IN
            (\/ op'[2] = nv
             \/ (op'[2] \in {Parent(nv), Other(nv)} /\ ~objs[op'[2]].changed))
               => \A n \in 1..Len(trace') :
                     ~(trace'[n].o = nv /\ trace'[n].ev \in {"commit", "notify"})]_vars

\* C13: after dv = v.derive(f), a tick of a dirty v runs dv.on_tick() in the
\* settle step before v commits: a dv staged with z by a direct dv.change(z)
\* commits z and notifies with z before v's commit.  (Stated for a z other
\* than f of the value v is about to commit.)
C13_DeriveIsDependent ==
    [][\A dv \in AliveVars :
          (/\ IsDerived(dv)
           /\ op'[1] = "tick" /\ op'[2] = Parent(dv)
           /\ objs[Parent(dv)].changed /\ objs[dv].changed
           /\ objs[dv].new # Apply(objs[dv].fn, objs[Parent(dv)].new))
          => \E s \in 1..Len(trace') : \E dc \in 1..Len(trace') :
                \E c \in 1..Len(trace') :
                /\ s < dc /\ dc < c
                /\ trace'[s].ev = "settle" /\ trace'[s].o = Parent(dv)
                /\ trace'[s].i = dv
                /\ trace'[dc].ev = "commit" /\ trace'[dc].o = dv
                /\ trace'[dc].p = objs[dv].new
                /\ trace'[c].ev = "commit" /\ trace'[c].o = Parent(dv)
                /\ \A m \in 1..Len(trace') :
                      (trace'[m].ev = "notify" /\ trace'[m].o = dv /\ m < c)
                         => trace'[m].p = objs[dv].new]_vars

\* C14: when derive returns, dv.value() = f(v.value()); when concat returns,
\* cv.value() = (a.value(), b.value()): the committed values of the sources,
\* also when a source has a staged change.
C14_BuiltFromCommitted ==
    /\ op[1] = "derive" =>
          value(St0, op[3]) = Apply(objs[op[3]].fn, value(St0, op[2]))
    /\ op[1] = "concat" =>
          value(St0, op[4]) = <<value(St0, op[2]), value(St0, op[3])>>

C14_Witness ==
    /\ op[1] = "concat"
    /\ op[2] # op[3]
    /\ objs[op[2]].changed
    /\ objs[op[2]].new # value(St0, op[2])
    /\ IsDerived(op[3])
    /\ value(St0, op[4]) = <<value(St0, op[2]), value(St0, op[3])>>

\* C18: watch(cb) runs nothing at registration; every commit of the var then
\* invokes cb exactly once, with the committed value, at its place in the
\* registration order of the subscribers; cb is held strongly and never
\* skipped.
C18_WatchFiresPerCommit ==
    /\ op[1] = "watch" => trace = <<>>
    /\ Ticked =>
          \A v \in AliveVars : \A c \in Commits(v) :
             /\ \A i \in 1..Len(objs[v].subs) :
                   ~objs[v].subs[i].weak =>
                      /\ Cardinality({m \in Loop(v, c) : trace[m].i = i}) = 1
                      /\ \A m \in Loop(v, c) :
                            trace[m].i = i =>
                               /\ trace[m].h = objs[v].subs[i].cb
                               /\ trace[m].p = trace[c].p
             /\ \A m \in Loop(v, c) : \A k \in Loop(v, c) :
                   trace[k].i < trace[m].i => k < m

C18_Witness ==
    \E v \in AliveVars : \E c \in Commits(v) :
        \E i \in 1..Len(objs[v].subs) : \E j \in 1..Len(objs[v].subs) :
            /\ Ticked
            /\ j < i
            /\ objs[v].subs[j].weak /\ ~objs[v].subs[i].weak
            /\ \E m \in Loop(v, c) : \E k \in Loop(v, c) :
                  /\ k < m
                  /\ trace[k].i = j /\ trace[m].i = i
                  /\ trace[m].h = "cb1"
            /\ \E n \in Entries("handler", v) : n < c /\ trace[n].cur # trace[c].p

\* C17: register is last-wins: after register(K, h1) then register(K, h2) on
\* one widget, dispatch(K, p) invokes h2 exactly once and never h1; register
\* touches no other key of that widget and no other widget.
C17_RegisterLastWins ==
    [][/\ op'[1] = "register" =>
            objs' = [objs EXCEPT ![op'[2]].handlers[op'[3]] = op'[4]]
       /\ (op'[1] = "dispatch" /\ op'[5] # <<>>) =>
            LET w == op'[2]
                h2 == op'[5][1]
                h1 == op'[5][2]
                ran(h) == {n \in 1..Len(trace') :
                              /\ trace'[n].o = w /\ trace'[n].ev = "handler"
                              /\ trace'[n].h = h}
            IN /\ Cardinality(ran(h2)) = 1
               /\ \A n \in ran(h2) : trace'[n].k = op'[3] /\ trace'[n].p = op'[4]
               /\ h1 # h2 => ran(h1) = {}]_vars

C17_Witness ==
    /\ op[1] = "dispatch" /\ op[5] # <<>>
    /\ op[5][2] \in TreeHandlers /\ op[5][1] # op[5][2]
    /\ \E k \in TreeKeys \ {op[3]} : objs[op[2]].handlers[k] = op[5][2]
    /\ Len(trace) = 1 /\ trace[1].ev = "handler" /\ trace[1].h = op[5][1]

\* the number of trace entries one dispatch of key to o leaves
RECURSIVE Span(_, _)
RECURSIVE SumSpan(_, _, _)
SumSpan(ws, key, n) ==
    IF n = 0 THEN 0 ELSE Span(ws[n], key) + SumSpan(ws, key, n - 1)
Span(o, key) ==
    IF objs[o].handlers[key] = NoHandler /\ objs[o].kind = "group"
    THEN 1 + SumSpan(objs[o].widgets, key, Len(objs[o].widgets))
    ELSE 1

RECURSIVE SumCells(_, _, _, _)
SumCells(ws, h, w, n) ==
    IF n = 0 THEN 0
    ELSE Len(cells(St0, ws[n], h, w)) + SumCells(ws, h, w, n - 1)

\* C20: an event dispatched to a Group with no handler for it goes to every
\* child once, in list order, each child's whole handling finishing before
\* the next child gets the event; the Group's cells(h, w) is its children's
\* cells(h, w), one after the other in list order.
C20_GroupForwardsInOrder ==
    /\ (/\ op[1] = "dispatch" /\ objs[op[2]].kind = "group"
        /\ objs[op[2]].handlers[op[3]] = NoHandler) =>
          LET ws == objs[op[2]].widgets IN
          /\ Len(trace) = 1 + SumSpan(ws, op[3], Len(ws))
          /\ \A i \in 1..Len(ws) :
                Delivered(2 + SumSpan(ws, op[3], i - 1), ws[i], op[3], op[4])
    /\ \A g \in 1..Len(objs) : \A h \in 0..MaxScreen : \A w \in 0..MaxScreen :
          objs[g].kind = "group" =>
             LET ws == objs[g].widgets
                 out == cells(St0, g, h, w)
             IN /\ Len(out) = SumCells(ws, h, w, Len(ws))
                /\ \A i \in 1..Len(ws) :
                      SubSeq(out, SumCells(ws, h, w, i - 1) + 1,
                                  SumCells(ws, h, w, i))
                         = cells(St0, ws[i], h, w)

C20_Witness ==
    /\ op[1] = "dispatch" /\ objs[op[2]].kind = "group"
    /\ objs[op[2]].handlers[op[3]] = NoHandler
    /\ LET ws == objs[op[2]].widgets IN
          /\ Len(ws) = 2
          /\ objs[ws[1]].kind = "group" /\ objs[ws[1]].handlers[op[3]] = NoHandler
          /\ objs[ws[2]].kind = "text" /\ objs[ws[2]].handlers[op[3]] # NoHandler
          /\ Len(trace) = 4
          /\ Len(cells(St0, op[2], MaxScreen, MaxScreen)) = 4

\* C15: the registry gives one key per (payload type, prefix) pair: two calls
\* return the same key exactly when they agree on payload type and on prefix,
\* in any order of calls.
C15_OneKeyPerTypeAndPrefix ==
    op[1] = "e_change" =>
        \A i \in 1..Len(op[2]) : \A j \in 1..Len(op[2]) :
            (op[2][i].t = op[2][j].t /\ op[2][i].prefix = op[2][j].prefix)
               <=> (op[2][i].key = op[2][j].key)

\* C16: every EventKey construction yields a key equal to no other key, also
\* one of the same name: a new key finds no handler on any widget, a
\* registration under one key changes what no other key finds, and a dispatch
\* runs exactly what its own key finds.
C16_KeysAreUnique ==
    [][/\ op'[1] = "EventKey" =>
            /\ \A k \in Objs("key") :
                  KeyOf([objs |-> objs'], k) # KeyOf([objs |-> objs'], op'[2])
            /\ \A w \in Objs("widget") :
                  objs'[w].handlers[KeyOf([objs |-> objs'], op'[2])] = NoHandler
       /\ op'[1] = "register" =>
            \A k \in Objs("key") \ {op'[3]} :
               objs'[op'[2]].handlers[KeyOf(St0, k)]
                  = objs[op'[2]].handlers[KeyOf(St0, k)]
       /\ op'[1] = "dispatch" =>
            /\ Len(trace') = 1
            /\ trace'[1].o = op'[2] /\ trace'[1].p = op'[4]
            /\ trace'[1].h =
                  IF objs[op'[2]].handlers[KeyOf(St0, op'[3])] = NoHandler
                  THEN "-" ELSE objs[op'[2]].handlers[KeyOf(St0, op'[3])]]_vars

C16_Witness ==
    /\ op[1] = "dispatch"
    /\ trace[1].ev = "bubble"
    /\ \E k \in Objs("key") \ {op[3]} :
          /\ objs[k].name = objs[op[3]].name
          /\ objs[op[2]].handlers[KeyOf(St0, k)] # NoHandler

\* C11: for every commit of a var, each live widget that subscribed once gets
\* exactly one dispatch of the committed value, also a widget whose
\* subscription is made by a handler running inside that var's notification.
C11_NoDoubleFire ==
    Ticked =>
        \A v \in AliveVars : \A c \in Commits(v) : \A w \in Alive :
            \A i \in 1..Len(objs[v].subs) :
               (/\ objs[v].subs[i].weak /\ objs[v].subs[i].w = w
                /\ \A j \in 1..Len(objs[v].subs) :
                      (objs[v].subs[j].weak /\ objs[v].subs[j].w = w) => j = i)
               => Cardinality({n \in Idx :
                      /\ n > c
                      /\ trace[n].ev = "handler" /\ trace[n].o = w
                      /\ trace[n].k = objs[v].subs[i].key
                      /\ trace[n].p = trace[c].p}) = 1

\* what builder fn makes of the current value of var
Shows(t, var) == objs[t].kind = "text" /\ objs[t].text = <<value(St0, var)>>
BuiltBy(fn, var, w) ==
    IF fn = "label" THEN Shows(w, var)
    ELSE /\ objs[w].kind = "reactive"
         /\ objs[w].fn = "label" /\ objs[w].var = var
         /\ Shows(objs[w].widget, var)
\* r, the sub-widget it holds and what that one holds
Held(r) ==
    {r, objs[r].widget}
       \cup (IF objs[objs[r].widget].kind = "reactive"
             THEN {objs[objs[r].widget].widget} ELSE {})

\* C19: for r = Reactive(var, f), after construction and after every commit
\* of var, r holds the widget f builds from var.value(); an event of another
\* key than the change key dispatched to r reaches the held sub-widget and no
\* widget r held before.
C19_ReactiveHoldsCurrent ==
    /\ \A r \in Objs("reactive") :
          BuiltBy(objs[r].fn, objs[r].var, objs[r].widget)
    /\ (op[1] = "dispatch" /\ objs[op[2]].kind = "reactive") =>
          /\ Delivered(1, op[2], op[3], op[4]) /\ trace[1].ev = "bubble"
          /\ Delivered(2, objs[op[2]].widget, op[3], op[4])
          /\ Len(trace) = Cardinality(Held(op[2]))
          /\ \A n \in Idx : trace[n].o \in Held(op[2])

C19_Witness ==
    /\ op[1] = "dispatch" /\ objs[op[2]].kind = "reactive"
    /\ objs[op[2]].fn = "nested"
    /\ Len(trace) = 3
    /\ \E t \in Objs("text") :
          /\ t \notin Held(op[2])
          /\ objs[t].text # <<value(St0, objs[op[2]].var)>>

\* C23: in a frame the dirty vars commit in the order the traversal delivers
\* the tick: for v1 before v2 in the Group, v1 is committed and all of v1's
\* subscribers are notified before v2 commits, whatever vars hang on them.
C23_CommitsInTraversalOrder ==
    op[1] = "frame" =>
        \A v1 \in Sources : \A v2 \in Sources :
            (v1 < v2 /\ Commits(v1) # {} /\ Commits(v2) # {}) =>
                \A c2 \in Commits(v2) :
                    /\ \A c1 \in Commits(v1) :
                          /\ c1 < c2
                          /\ \A i \in 1..Len(objs[v1].subs) :
                                LiveSub(v1, i) =>
                                   \E m \in Loop(v1, c1) : trace[m].i = i /\ m < c2
                    /\ \A m \in Entries("notify", v1) : m < c2
                    /\ \A n \in Entries("handler", v2) :
                          \A m \in Entries("notify", v1) \cup Commits(v1) : m < n

C23_Witness ==
    /\ op[1] = "frame"
    /\ \E cv \in AliveVars :
          /\ IsConcat(cv) /\ Parent(cv) # Other(cv)
          /\ Parent(cv) \in Sources /\ Other(cv) \in Sources
          /\ Commits(cv) # {}
          /\ \A v \in {Parent(cv), Other(cv)} :
                \E c \in Commits(v) : \E n \in Entries("handler", v) :
                   /\ n < c /\ trace[n].cur # trace[c].p
                   /\ \E m \in Loop(v, c) : objs[v].subs[trace[m].i].w = cv

\* C26: a derived var commits inside its source's notification loop: with
\* dv = v.derive(f) subscribed before w, a commit of v to x commits dv to f(x)
\* and notifies all of dv's subscribers with f(x) before w is notified with x
\* (and so before v.on_tick returns).
C26_DerivedCommitsInsideNotify ==
    Ticked =>
        \A v \in AliveVars : \A c \in Commits(v) :
            \A i \in 1..Len(objs[v].subs) :
               LET dv == objs[v].subs[i].w IN
               (/\ objs[v].subs[i].weak /\ objs[dv].alive
                /\ objs[dv].kind = "var" /\ IsDerived(dv) /\ Parent(dv) = v)
               => \E m \in Loop(v, c) : \E dc \in Commits(dv) :
                     /\ trace[m].i = i /\ m < dc
                     /\ trace[dc].p = Apply(objs[dv].fn, trace[c].p)
                     /\ trace[dc].cur = trace[dc].p
                     /\ \A k \in 1..Len(objs[dv].subs) :
                           LiveSub(dv, k) =>
                              \E n \in Loop(dv, dc) :
                                 trace[n].i = k /\ trace[n].p = trace[dc].p
                     /\ \A n \in Loop(v, c) :
                           trace[n].i > i =>
                              /\ dc < n
                              /\ \A k \in Loop(dv, dc) : k < n

C26_Witness ==
    \E v \in AliveVars : \E c \in Commits(v) :
        \E i \in 1..Len(objs[v].subs) : \E j \in 1..Len(objs[v].subs) :
            LET dv == objs[v].subs[i].w IN
            /\ Ticked /\ i < j
            /\ objs[v].subs[i].weak /\ objs[dv].alive
            /\ objs[dv].kind = "var" /\ IsDerived(dv) /\ Parent(dv) = v
            /\ \E dc \in Commits(dv) : \E n \in Loop(dv, dc) : \E m \in Loop(v, c) :
                  /\ trace[m].i = j /\ n < m
                  /\ trace[dc].p # trace[dc - 1].cur
            /\ \E n \in Entries("handler", v) : n < c /\ trace[n].cur # trace[c].p

\* the calls of change() on v that the trace of a call shows
ChangeCalls(tr, v) ==
    {n \in 1..Len(tr) :
        /\ tr[n].o = v /\ tr[n].ev = "handler"
        /\ tr[n].h \in {"on_change", "on_t_change", "on_u_change"}}
LastCommit(tr, v) ==
    LET cs == {n \in 1..Len(tr) : tr[n].o = v /\ tr[n].ev = "commit"}
    IN IF cs = {} THEN 0 ELSE CHOOSE n \in cs : \A k \in cs : k <= n

\* C27: between operations a var that is not dirty has its pending value
\* equal to its committed value, and a var is dirty exactly when change() was
\* called on it since its last commit.
C27_DirtyIffChangedSinceCommit ==
    [][\A v \in 1..Len(objs') :
          (objs'[v].kind = "var" /\ objs'[v].alive) =>
             LET was == v <= Len(objs) /\ objs[v].changed
                 direct == op'[1] = "change" /\ op'[2] = v
                 lc == LastCommit(trace', v)
                 after == {n \in ChangeCalls(trace', v) : n > lc}
             IN /\ ~objs'[v].changed => objs'[v].new = objs'[v].last
                /\ objs'[v].changed <=>
                      IF lc = 0 THEN was \/ direct \/ after # {}
                      ELSE after # {}]_vars

C27_Witness ==
    \E cv \in AliveVars :
        /\ Ticked /\ IsConcat(cv)
        /\ objs[cv].changed /\ objs[cv].new # objs[cv].last
        /\ LastCommit(trace, cv) > 0
        /\ \E n \in ChangeCalls(trace, cv) : n > LastCommit(trace, cv)
        /\ \E dv \in AliveVars : IsDerived(dv) /\ ~objs[dv].changed /\ Commits(dv) # {}

\* C29: no operation removes an entry from a var's subscriber list or
\* dependents list: each list of a live var only grows at its end, entries of
\* dead widgets included.
C29_ListsOnlyGrow ==
    [][\A v \in AliveVars :
          objs'[v].alive =>
             /\ Len(objs'[v].subs) >= Len(objs[v].subs)
             /\ SubSeq(objs'[v].subs, 1, Len(objs[v].subs)) = objs[v].subs
             /\ Len(objs'[v].subvars) >= Len(objs[v].subvars)
             /\ SubSeq(objs'[v].subvars, 1, Len(objs[v].subvars))
                   = objs[v].subvars]_vars

C29_Witness ==
    \E v \in AliveVars : \E c \in Commits(v) :
        \E i \in 1..Len(objs[v].subs) : \E j \in 1..Len(objs[v].subs) :
            /\ op[1] = "tick" /\ op[2] = v
            /\ i < j
            /\ objs[v].subs[i].weak /\ ~objs[objs[v].subs[i].w].alive
            /\ objs[v].subs[i].w \in {objs[v].subvars[d] : d \in 1..Len(objs[v].subvars)}
            /\ ~objs[v].subs[j].weak
            /\ Cardinality(Loop(v, c)) = 1

\* C30: every core widget owns an empty handler table once its constructor
\* has returned, so register and dispatch on it never fail for lack of one:
\* an unregistered key dispatched to a fresh Group reaches its bubble.
C30_EveryWidgetOwnsATable ==
    /\ \A o \in 1..Len(objs) : objs[o].table
    /\ op[1] \in {"register", "dispatch"} =>
          \A n \in Idx : trace[n].ev # "raise"
    /\ (/\ op[1] = "dispatch" /\ objs[op[2]].kind = "group"
        /\ objs[op[2]].handlers[op[3]] = NoHandler) =>
          /\ trace # <<>>
          /\ trace[1].ev = "bubble" /\ trace[1].o = op[2]

\* C25: constructing a Rect or a Char whose character payload is not exactly
\* one glyph fails at construction (AssertionError for Rect, ValueError for
\* Char) and builds nothing; a one-glyph payload builds the drawable; so every
\* drawable that exists, and every cell a Rect yields, carries one glyph.
C25_OneGlyphOrNothing ==
    /\ \A o \in 1..Len(objs) :
          objs[o].kind \in {"rect", "char"} => Len(objs[o].text) = 1
    /\ op[1] \in {"Rect", "Char"} =>
          /\ Len(op[2]) # 1 =>
                /\ op[3] = (IF op[1] = "Rect" THEN "AssertionError"
                            ELSE "ValueError")
                /\ Len(objs) = op[4]
          /\ Len(op[2]) = 1 =>
                /\ op[3] = NoExc
                /\ Len(objs) = op[4] + 1
                /\ objs[Len(objs)].text = op[2]
    /\ op[1] = "cells" =>
          \A i \in 1..Len(op[5]) : Len(op[5][i].char) = 1

C25_Witness ==
    /\ op[1] = "Rect" /\ Len(op[2]) = 2 /\ op[3] = "AssertionError"
    /\ Len(objs) = 1 /\ objs[1].kind = "char"

\* the entries of the running call that are calls made by the driver loop
Drives(k) == {n \in Idx : trace[n].ev = "drive" /\ trace[n].k = k}
Queries == {n \in Idx : trace[n].ev = "cells"}

\* C24: a pass of the driver loop that does not end with Quit dispatches at
\* most one input event to the root (a resize or a key, never both), then
\* exactly one tick, then asks root.cells(h, w) exactly once; the loop starts
\* only after one resize event was dispatched to the root.
C24_OneTickThenCells ==
    [][ /\ op'[1] = "iterate" =>
            /\ Cardinality(Drives(E_TICK)') = 1
            /\ Cardinality(Drives(E_RESIZE)' \cup Drives(E_KEY)') =
                  (IF op'[3] = "-1" THEN 0 ELSE 1)
            /\ Drives(E_RESIZE)' # {} <=> op'[3] = "KEY_RESIZE"
            /\ \A i \in Drives(E_RESIZE)' \cup Drives(E_KEY)' :
                  \A t \in Drives(E_TICK)' : i < t
            /\ Cardinality(Queries') = 1
            /\ Queries' = {Len(trace')}
            /\ \A t \in Drives(E_TICK)' : t < Len(trace')
        /\ op'[1] \in {"iterate", "return"} => Running
        /\ op'[1] = "resize" =>
            /\ op[1] = "game"
            /\ Cardinality(Drives(E_RESIZE)') = 1
            /\ trace'[1].ev = "drive" /\ trace'[1].p = op'[3]
            /\ Drives(E_TICK)' = {} /\ Drives(E_KEY)' = {} /\ Queries' = {}
      ]_vars

C24_Witness ==
    /\ op[1] = "iterate" /\ op[3] = "a"
    /\ objs[1].last = 1
    /\ Len(op[4]) = 1

\* C22: a Quit raised by a handler is caught by no widget: nothing else runs
\* in the pass after the raise (no later child of a Group and no later
\* subscriber of a var gets the event, no tick and no cells query follow), the
\* loop returns, and after it has returned it makes no further call.
C22_QuitEndsTheLoop ==
    [][ /\ op[1] \notin {"return", "raised"}
        /\ \A n \in Idx' :
              trace'[n].ev = "raise" =>
                 /\ n = Len(trace')
                 /\ trace'[n].h = "Quit"
                 /\ op'[1] = "return"
        /\ op'[1] = "return" =>
              /\ trace' # <<>>
              /\ trace'[Len(trace')].ev = "raise"
              /\ Queries' = {}
              /\ op'[3] \in {"a", "-1"} => Cardinality(Drives(E_TICK)') = 1
              /\ op'[3] = "q" => Drives(E_TICK)' = {}
      ]_vars

\* Quit raised by the first subscriber of score while it notifies, with the
\* Reactive subscribed after it
C22_Witness ==
    /\ op[1] = "return" /\ op[3] = "a"
    /\ Len(objs[1].subs) = 2
    /\ objs[objs[1].subs[1].w].steps = 0
    /\ objs[objs[1].subs[2].w].kind = "reactive"
    /\ objs[1].last = 1

\* the handlers that only filter key names
KeyFilters == {"on_key", "on_quit"}

\* C21: an event whose key nothing in the tree is registered for, and a key
\* event whose key name neither OnKey nor GiveUp listens to, dispatched to the
\* root Group over the Reactive and the OnKey, raises nothing, runs no handler
\* of the application and leaves every var and widget as it was.
C21_UnhandledEventIsDropped ==
    [][ /\ op'[1] = "probe" =>
            /\ objs' = objs /\ reg' = reg
            /\ trace' # <<>>
            /\ \A n \in Idx' :
                  /\ trace'[n].ev # "raise"
                  /\ trace'[n].ev = "handler" =>
                        op'[3] = E_KEY /\ trace'[n].h \in KeyFilters
        /\ (op'[1] = "iterate" /\ op'[3] = "z") =>
            \A n \in Idx' : \A t \in Drives(E_TICK)' :
                (n < t /\ trace'[n].ev = "handler") => trace'[n].h \in KeyFilters
      ]_vars

C21_Witness ==
    /\ op[1] = "probe" /\ op[3] = E_KEY /\ op[4] = "z"
    /\ \E n \in Idx : trace[n].ev = "handler" /\ trace[n].h = "on_key"
    /\ \E n \in Idx : trace[n].ev = "bubble" /\ objs[trace[n].o].kind = "reactive"
    /\ objs[1].changed

\* the subscriber of score changed score from inside score's notification:
\* score committed at entry c, and the handler ran after it with the
\* committed value at or past the subscriber's limit
Reentered(c) ==
    /\ op[1] = "iterate"
    /\ c \in Idx /\ trace[c].ev = "commit" /\ trace[c].o = 1
    /\ \E n \in Idx :
          /\ n > c /\ trace[n].ev = "handler" /\ trace[n].h = "on_update"
          /\ trace[c].p >= objs[trace[n].o].limit

\* C28: a change(z) made on a var by its own subscriber while the var notifies
\* stays staged: the tick commits once, every subscriber of that tick gets the
\* committed value, the var ends the tick dirty with z staged and reporting
\* the committed value, and its next tick (no other change in between) commits
\* z and notifies every subscriber with z.
C28_ReentrantChangeIsStaged ==
    [][ /\ \A c \in Idx' :
              Reentered(c)' =>
                 /\ objs'[1].last = trace'[c].p
                 /\ objs'[1].changed
                 /\ \E n \in Idx' :
                       /\ trace'[n].h = "on_update"
                       /\ objs'[1].new = objs'[trace'[n].o].to
                 /\ \A n \in Idx' :
                       (trace'[n].o = 1 /\ trace'[n].ev = "commit") => n = c
                 /\ \A n \in Idx' :
                       (trace'[n].o = 1 /\ trace'[n].ev = "notify") =>
                          trace'[n].p = trace'[c].p
        /\ ((\E c \in Idx : Reentered(c))
              /\ op'[1] = "iterate" /\ op'[3] # "a") =>
                 /\ \E n \in Idx' :
                       /\ trace'[n].o = 1 /\ trace'[n].ev = "commit"
                       /\ trace'[n].p = objs[1].new
                 /\ \A i \in 1..Len(objs[1].subs) : \E n \in Idx' :
                       /\ trace'[n].o = 1 /\ trace'[n].ev = "notify"
                       /\ trace'[n].i = i /\ trace'[n].p = objs[1].new
      ]_vars

\* the staged 0 was committed by the next tick: score reads 0 again after 1
C28_Witness ==
    /\ op[1] = "iterate"
    /\ \E n \in Idx : /\ trace[n].o = 1 /\ trace[n].ev = "commit"
                      /\ trace[n].p = 0
    /\ \E n \in Idx : /\ trace[n].o = 1 /\ trace[n].ev = "notify"
                      /\ trace[n].i = 2 /\ trace[n].p = 0

\* the screen cells a rect covers
Cover(r) ==
    {<<row, col>> : row \in r.y..(r.y + r.height - 1),
                    col \in r.x..(r.x + r.width - 1)}

\* C36: Rect.cells(h, w) yields at most one rect, covering exactly the cells
\* of the rect that lie inside the viewport 0 <= row < h, 0 <= col < w, with
\* the char unchanged, and yields nothing when there is no such cell.
C36_CellsIsTheIntersection ==
    (op[1] = "cells" /\ objs[op[2]].kind = "rect") =>
        LET r    == objs[op[2]]
            out  == op[5]
            view == {<<row, col>> : row \in 0..(op[3] - 1), col \in 0..(op[4] - 1)}
        IN /\ Len(out) <= 1
           /\ Len(out) = 0 <=> Cover(r) \cap view = {}
           /\ Len(out) = 1 =>
                 /\ Cover(out[1]) = Cover(r) \cap view
                 /\ out[1].height > 0 /\ out[1].width > 0
                 /\ out[1].char = r.text

\* a rect sticking out of the screen on every side
C36_Witness ==
    /\ op[1] = "cells" /\ op[3] = MaxScreen /\ op[4] = MaxScreen
    /\ objs[op[2]].y < 0 /\ objs[op[2]].x < 0
    /\ objs[op[2]].y + objs[op[2]].height > MaxScreen
    /\ objs[op[2]].x + objs[op[2]].width > MaxScreen
    /\ Len(op[5]) = 1 /\ op[5][1].height = MaxScreen

FirstN(s, m) == SubSeq(s, 1, m)
LastN(s, n) == SubSeq(s, Len(s) - n + 1, Len(s))

\* C31: for cv = p.concat(q) with p of m elements and q of n elements, m and
\* n from 0 up: the pending tuple of cv always has m + n elements, a commit
\* of q puts q's value in its last n places and leaves the first m, and a
\* commit of p puts p's value in its first m places and leaves the last n.
C31_ConcatWritesOneSide ==
    [][ \A cv \in 1..Len(objs') :
          IsConcat(cv)' =>
             LET p == objs'[cv].name[2]
                 q == objs'[cv].name[3]
                 m == Len(objs'[p].last)
                 n == Len(objs'[q].last)
                 pq == objs'[cv].new
                 CommittedNow(v) ==
                     \E k \in Idx' : trace'[k].ev = "commit" /\ trace'[k].o = v
             IN /\ Len(pq) = m + n
                /\ (op'[1] = "tick" /\ op'[2] = q /\ CommittedNow(q)) =>
                      /\ LastN(pq, n) = objs'[q].last
                      /\ FirstN(pq, m) = FirstN(objs[cv].new, m)
                /\ (op'[1] = "tick" /\ op'[2] = p /\ CommittedNow(p)) =>
                      /\ FirstN(pq, m) = objs'[p].last
                      /\ LastN(pq, n) = LastN(objs[cv].new, n)
      ]_vars

\* C32: TickReducer(n, e, w) with n >= 1 dispatches e to w on the n-th,
\* 2n-th, 3n-th ... tick it receives, once each time, and on no other tick;
\* its counter is in 0..n-1 after every tick; building one with n <= 0 fails.
C32_FiresEveryNthTick ==
    /\ op[1] = "tick" =>
          LET r     == objs[op[2]]
              fired == {k \in Idx : trace[k].ev \in {"handler", "bubble"}
                                    /\ trace[k].o = r.wrapped}
          IN /\ Cardinality(fired) = (IF op[3] % r.n = 0 THEN 1 ELSE 0)
             /\ \A k \in fired : trace[k].k = r.event
             /\ r.tick = op[3] % r.n
             /\ r.tick \in 0..(r.n - 1)
    /\ op[1] = "TickReducer" =>
          /\ op[4] <= 0 => op[5] = "ValueError" /\ Len(objs) = 1
          /\ op[4] >= 1 => /\ op[5] = NoExc /\ Len(objs) = 2
                           /\ objs[2].n = op[4] /\ objs[2].tick = 0
    /\ \A o \in 1..Len(objs) : objs[o].kind = "reducer" => objs[o].n >= 1

\* the second firing of a reducer with the largest n
C32_Witness ==
    /\ op[1] = "tick" /\ op[3] = 2 * MaxN
    /\ objs[2].n = MaxN /\ objs[2].tick = 0
    /\ \E k \in Idx : trace[k].o = 1 /\ trace[k].ev = "handler"

\* C33: a WidgetSequence forwards a bubbled event to its first remaining step
\* only and renders that step only; each E_NEXT removes exactly one step; the
\* E_NEXT that removes the last step, and no other call, dispatches E_DONE to
\* on_done_notify, once; with no step left, E_NEXT, any other event and cells
\* do nothing and raise nothing.
C33_SequenceRunsFirstStep ==
    [][ /\ op'[1] = "dispatch" =>
            LET s      == op'[2]
                before == objs[s].widgets
                after  == objs'[s].widgets
                done   == {k \in Idx' : trace'[k].k = E_DONE}
            IN /\ \A k \in Idx' : trace'[k].ev # "raise"
               /\ op'[3] = E_SEQ_NEXT =>
                     /\ after = (IF before = <<>> THEN <<>> ELSE Tail(before))
                     /\ Cardinality(done) = (IF Len(before) = 1 THEN 1 ELSE 0)
                     /\ \A k \in done : trace'[k].o = objs[s].wrapped
                     /\ before = <<>> => Len(trace') = 1 /\ objs' = objs
               /\ op'[3] # E_SEQ_NEXT =>
                     /\ objs' = objs
                     /\ done = {}
                     /\ trace'[1].ev = "bubble" /\ trace'[1].o = s
                     /\ before = <<>> => Len(trace') = 1
                     /\ before # <<>> =>
                           /\ Len(trace') = 2
                           /\ trace'[2].o = before[1]
                           /\ trace'[2].k = op'[3]
        /\ op'[1] = "cells" =>
            LET s == op'[2] IN
            /\ objs' = objs
            /\ op'[5] = (IF objs[s].widgets = <<>> THEN <<>>
                         ELSE cells(St0, objs[s].widgets[1], op'[3], op'[4]))
      ]_vars

\* the E_NEXT that removed the last step told on_done_notify, which handles it
C33_Witness ==
    /\ op[1] = "dispatch" /\ op[3] = E_SEQ_NEXT
    /\ objs[op[2]].widgets = <<>>
    /\ Len(trace) = 2
    /\ trace[2].k = E_DONE /\ trace[2].ev = "handler"

Abs(i) == IF i < 0 THEN -i ELSE i
Adjacent(a, b) == Abs(a[1] - b[1]) + Abs(a[2] - b[2]) = 1

\* C34: after any sequence of arrow, reverse and advance events the snake's
\* direction is one of the four unit vectors, consecutive body segments are
\* orthogonally adjacent, an advance never puts the head on the cell its
\* second segment had before the advance, and at most one arrow turn takes
\* effect between two advances.
C34_SnakeMovesLegally ==
    [][ /\ Len(objs') = 4 =>
            LET b == objs'[4].body IN
            /\ objs'[4].dir \in Horizontal \cup Vertical
            /\ Len(b) >= 2
            /\ \A i \in 1..(Len(b) - 1) : Adjacent(b[i], b[i + 1])
            /\ op'[3] <= 1
        /\ op'[1] = E_ADVANCE =>
            /\ objs'[1].last # objs[4].body[2]
            /\ objs'[1].last = <<objs[4].body[1][1] + objs[4].dir[1],
                                 objs[4].body[1][2] + objs[4].dir[2]>>
      ]_vars

\* a bent snake of three segments whose queued turn was taken by the advance
C34_Witness ==
    /\ op[1] = E_ADVANCE /\ op[3] = 1
    /\ Len(objs[4].body) = 3
    /\ objs[4].body[1][1] # objs[4].body[3][1]
    /\ objs[4].body[1][2] # objs[4].body[3][2]
    /\ objs[4].resting

\* C35: control events take effect in the order received: an arrow or reverse
\* received while the snake rests is queued; an advance re-dispatches the
\* oldest queued event, once, and only that one; and no event takes effect
\* on arrival while an earlier event is still waiting in the queue.
C35_ControlsKeepTheirOrder ==
    [][ /\ op'[1] \in Arrows \cup {E_REVERSE} =>
            /\ objs[4].resting =>
                  /\ objs'[4].mq = Append(objs[4].mq, op'[1])
                  /\ objs'[4].dir = objs[4].dir
                  /\ objs'[4].body = objs[4].body
            /\ objs[4].mq # <<>> =>
                  /\ objs'[4].dir = objs[4].dir
                  /\ objs'[4].body = objs[4].body
        /\ op'[1] = E_ADVANCE =>
            /\ objs[4].mq = <<>> => objs'[4].mq = <<>>
            /\ objs[4].mq # <<>> =>
                  /\ objs'[4].mq = Tail(objs[4].mq)
                  /\ Cardinality({k \in Idx' :
                        /\ trace'[k].ev = "handler" /\ trace'[k].o = 4
                        /\ trace'[k].k # E_ADVANCE}) = 1
                  /\ \E k \in Idx' :
                        /\ trace'[k].ev = "handler" /\ trace'[k].o = 4
                        /\ trace'[k].k = Head(objs[4].mq)
      ]_vars

====
